---- MODULE Spec2Model ----
(***************************************************************************)
(* A model of the DEX parser bridge of the Vector native library           *)
(* (dex_parser_bridge.cpp): the encoded_value / encoded_array /            *)
(* encoded_annotation decoder with its two pools, and the per-class        *)
(* structural decode of openDex.                                           *)
(*                                                                         *)
(* Memory is modelled at byte granularity.  A byte is a number in 0..255   *)
(* (the bit pattern; a jbyte holding 0xFF is the pattern 255, read as -1   *)
(* by JByte).  A std::vector<jbyte> that the code type-puns to an integer  *)
(* is the little-endian sequence of that integer's bytes.  Positions in a  *)
(* buffer are 1-based: the byte at C++ offset k is buf[k + 1].             *)
(***************************************************************************)
EXTENDS Integers, Sequences, FiniteSets, TLC

(***************************************************************************)
(* Bounds of the checked inputs.                                           *)
(***************************************************************************)
\* Largest number of nodes (values) of a nested encoded_value tree.
MaxNodes == 4
\* Largest number of class definitions of a multi-class input.
MaxClasses == 2
\* Largest length of a member list whose deltas are enumerated.
MaxMembers == 2
\* Index deltas 1..MaxDelta are enumerated, with 0 for a first delta and
\* BigDelta, which takes two bytes of ULEB128.
MaxDelta == 1
BigDelta == 300
\* Largest number of annotations of an enumerated annotation set, and of
\* parameters of an enumerated parameter reference list.
MaxSetSize == 2
MaxParams == 2
\* Largest number of instructions and payloads of an enumerated method body,
\* and of entries of a pseudo-instruction payload.
MaxItems == 3
MaxEntries == 2

(***************************************************************************)
(* dex format constants used by the parser (slicer's dex_format.h).        *)
(***************************************************************************)
kEncodedValueTypeMask == 31
kEncodedValueArgShift == 5
kEncodedByte == 0
kEncodedShort == 2
kEncodedChar == 3
kEncodedInt == 4
kEncodedLong == 6
kEncodedFloat == 16
kEncodedDouble == 17
kEncodedMethodType == 21
kEncodedMethodHandle == 22
kEncodedString == 23
kEncodedType == 24
kEncodedField == 25
kEncodedMethod == 26
kEncodedEnum == 27
kEncodedArray == 28
kEncodedAnnotation == 29
kEncodedNull == 30
kEncodedBoolean == 31
kVisibilityEncoded == 255

(***************************************************************************)
(* Bytes and little-endian integers.                                       *)
(***************************************************************************)
Byte == 0..255

Pow2(n) == 2 ^ n

\* Bitwise or of two bytes.
BitOr(a, b) ==
    LET bit(x, k) == (x \div Pow2(k)) % 2
        Sum[k \in 0..8] ==
            IF k = 8 THEN 0
            ELSE (IF bit(a, k) = 1 \/ bit(b, k) = 1 THEN Pow2(k) ELSE 0) + Sum[k + 1]
    IN Sum[0]

Zeros(n) == [k \in 1..n |-> 0]

\* The n bytes of the non-negative integer v, least significant first
\* (what storing v through a reinterpret_cast'ed pointer leaves in memory).
ToLE(v, n) == [k \in 1..n |-> (v \div Pow2(8 * (k - 1))) % 256]

\* The unsigned integer held by a little-endian byte sequence (at most 3
\* significant bytes are used on values this large by the checks).
FromLE(bytes) ==
    LET Sum[k \in 1..(Len(bytes) + 1)] ==
            IF k > Len(bytes) THEN 0
            ELSE bytes[k] * Pow2(8 * (k - 1)) + Sum[k + 1]
    IN Sum[1]

\* A byte read as a jbyte (signed 8-bit).
JByte(b) == IF b >= 128 THEN b - 256 ELSE b

(***************************************************************************)
(* dex::ReadULeb128: the unsigned LEB128 integer at buf[pos], at most 5    *)
(* bytes; returns the value and the position after it.                     *)
(***************************************************************************)
RECURSIVE ULebFrom(_, _, _)
ULebFrom(buf, pos, n) ==
    LET cur == buf[pos]
    IN IF cur > 127 /\ n < 4
       THEN LET rest == ULebFrom(buf, pos + 1, n + 1)
            IN [val |-> (cur % 128) + 128 * rest.val, pos |-> rest.pos]
       ELSE [val |-> cur, pos |-> pos + 1]

ReadULeb128(buf, pos) == ULebFrom(buf, pos, 0)

(***************************************************************************)
(* The integral and floating types the value parsers are instantiated at.  *)
(***************************************************************************)
SizeOf(T) ==
    CASE T = "int8_t" -> 1
      [] T = "int16_t" -> 2
      [] T = "uint16_t" -> 2
      [] T = "int32_t" -> 4
      [] T = "uint32_t" -> 4
      [] T = "int64_t" -> 8
      [] T = "float" -> 4
      [] T = "double" -> 8

IsSigned(T) == T \in {"int8_t", "int16_t", "int32_t", "int64_t"}

(***************************************************************************)
(* ParseIntValue<T>.  value is the sizeof(T)-byte vector `ret` seen as T.  *)
(***************************************************************************)
\* value |= T(byte) << (i * 8): the byte lands in byte i of the T-wide value;
\* what the shift moves past the width of T is cut off by the assignment.
OrShifted(T, value, byte, i) ==
    [k \in 1..SizeOf(T) |-> IF k = i + 1 THEN BitOr(value[k], byte) ELSE value[k]]

\* T(value << shift), shift = 8 * nbytes.
ShlBytes(T, value, nbytes) ==
    [k \in 1..SizeOf(T) |-> IF k - nbytes >= 1 THEN value[k - nbytes] ELSE 0]

\* value >> shift on a signed T (arithmetic), shift = 8 * nbytes.
SarBytes(T, value, nbytes) ==
    LET fill == IF value[SizeOf(T)] >= 128 THEN 255 ELSE 0
    IN [k \in 1..SizeOf(T) |-> IF k + nbytes <= SizeOf(T) THEN value[k + nbytes] ELSE fill]

SignExtendRaw(T, value, size) == value

\* The `if constexpr (std::is_signed_v<T>)` block.
SignExtend(T, value, size) ==
    LET nbytes == SizeOf(T) - size
    IN IF IsSigned(T) /\ nbytes > 0
       THEN SarBytes(T, ShlBytes(T, value, nbytes), nbytes)
       ELSE value

RECURSIVE ReadIntBytes(_, _, _, _, _, _)
ReadIntBytes(T, buf, pos, size, i, value) ==
    IF i < size
    THEN ReadIntBytes(T, buf, pos + 1, size, i + 1, OrShifted(T, value, buf[pos], i))
    ELSE [value |-> value, pos |-> pos]

ParseIntValue(T, buf, pos, size) ==
    LET r == ReadIntBytes(T, buf, pos, size, 0, Zeros(SizeOf(T)))
    IN [ret |-> SignExtend(T, r.value, size), pos |-> r.pos]

(***************************************************************************)
(* ParseFloatValue<T>.                                                     *)
(***************************************************************************)
FloatStartByteLow(T, size) == 0

\* int start_byte = sizeof(T) - size;
FloatStartByte(T, size) == SizeOf(T) - size

RECURSIVE CopyFloatBytes(_, _, _, _, _)
CopyFloatBytes(buf, pos, p, size, ret) ==
    IF size > 0
    THEN CopyFloatBytes(buf, pos + 1, p + 1, size - 1, [ret EXCEPT ![p + 1] = buf[pos]])
    ELSE [ret |-> ret, pos |-> pos]

ParseFloatValue(T, buf, pos, size) ==
    CopyFloatBytes(buf, pos, FloatStartByte(T, size), size, Zeros(SizeOf(T)))

(***************************************************************************)
(* ParseValue / ParseAnnotation / ParseArray.                              *)
(*                                                                         *)
(* The three functions share the cursor `value`, annotation_list and       *)
(* array_list; the model threads them through as the record st:            *)
(*   pos              the cursor                                           *)
(*   annotation_list  the annotation pool (0-based index k is element k+1) *)
(*   array_list       the array pool                                       *)
(*   log              history of the pool references made and the pool     *)
(*                    insertions done, each with the position `at` of the  *)
(*                    first byte of the encoded_array / encoded_annotation *)
(*                    concerned; the code keeps no such log, it only       *)
(*                    records what the code did                            *)
(* A Value is <<type, value_content>>, an Element <<name, Value>>, an      *)
(* Annotation <<visibility, type, element_list>>, an Array a sequence of   *)
(* Values, as the tuples of the source.                                    *)
(***************************************************************************)
RefEvent(pool, at, index) == [ev |-> "ref", pool |-> pool, at |-> at, index |-> index]

StoreEvent(pool, at, index) == [ev |-> "store", pool |-> pool, at |-> at, index |-> index]

\* The instantiation of ParseIntValue chosen by each case of the switch.
ValueIntTypeAllSigned(type) ==
    CASE type = kEncodedByte -> "int8_t"
      [] type = kEncodedShort -> "int16_t"
      [] type = kEncodedChar -> "int16_t"
      [] type = kEncodedInt -> "int32_t"
      [] type = kEncodedLong -> "int64_t"
      [] OTHER -> "int32_t"

ValueIntType(type) ==
    CASE type = kEncodedByte -> "int8_t"
      [] type = kEncodedShort -> "int16_t"
      [] type = kEncodedChar -> "uint16_t"
      [] type = kEncodedInt -> "int32_t"
      [] type = kEncodedLong -> "int64_t"
      [] OTHER -> "uint32_t"

ValueFloatType(type) == IF type = kEncodedFloat THEN "float" ELSE "double"

IntValueTypes ==
    {kEncodedByte, kEncodedShort, kEncodedChar, kEncodedInt, kEncodedLong,
     kEncodedMethodType, kEncodedMethodHandle, kEncodedString, kEncodedType,
     kEncodedField, kEncodedMethod, kEncodedEnum}

FloatValueTypes == {kEncodedFloat, kEncodedDouble}

ValueSizeIsArg(arg) == arg

\* For numeric types, `arg` is `size - 1`.
ValueSize(arg) == arg + 1

\* static_cast<jbyte>(arg == 1)
BooleanContent(arg) == <<IF arg = 1 THEN 1 ELSE 0>>

RECURSIVE ParseValue(_, _)
RECURSIVE ParseAnnotation(_, _)
RECURSIVE ParseArray(_, _)
RECURSIVE ParseElements(_, _, _, _, _)
RECURSIVE ParseArrayValues(_, _, _, _, _)

ParseValue(buf, st) ==
    LET header == buf[st.pos]
        type == header % (kEncodedValueTypeMask + 1)
        arg == header \div Pow2(kEncodedValueArgShift)
        s1 == [st EXCEPT !.pos = @ + 1]
    IN CASE type \in IntValueTypes ->
              LET r == ParseIntValue(ValueIntType(type), buf, s1.pos, ValueSize(arg))
              IN [res |-> <<type, r.ret>>, st |-> [s1 EXCEPT !.pos = r.pos]]
         [] type \in FloatValueTypes ->
              LET r == ParseFloatValue(ValueFloatType(type), buf, s1.pos, ValueSize(arg))
              IN [res |-> <<type, r.ret>>, st |-> [s1 EXCEPT !.pos = r.pos]]
         [] type = kEncodedArray ->
              LET index == Len(s1.array_list)
                  r == ParseArray(buf, [s1 EXCEPT !.log = Append(@, RefEvent("array", s1.pos, index))])
              IN [res |-> <<type, ToLE(index, 4)>>,
                  st |-> [r.st EXCEPT
                            !.array_list = Append(@, r.ret),
                            !.log = Append(@, StoreEvent("array", s1.pos, Len(r.st.array_list)))]]
         [] type = kEncodedAnnotation ->
              LET index == Len(s1.annotation_list)
                  r == ParseAnnotation(buf, [s1 EXCEPT !.log = Append(@, RefEvent("annotation", s1.pos, index))])
              IN [res |-> <<type, ToLE(index, 4)>>,
                  st |-> [r.st EXCEPT
                            !.annotation_list = Append(@, r.ret),
                            !.log = Append(@, StoreEvent("annotation", s1.pos, Len(r.st.annotation_list)))]]
         [] type = kEncodedNull -> [res |-> <<type, <<>>>>, st |-> s1]
         [] type = kEncodedBoolean -> [res |-> <<type, BooleanContent(arg)>>, st |-> s1]

\* The loop of ParseAnnotation: elements j..size-1.
ParseElements(buf, st, j, size, element_list) ==
    IF j < size
    THEN LET name == ReadULeb128(buf, st.pos)
             v == ParseValue(buf, [st EXCEPT !.pos = name.pos])
         IN ParseElements(buf, v.st, j + 1, size, Append(element_list, <<name.val, v.res>>))
    ELSE [ret |-> element_list, st |-> st]

ParseAnnotation(buf, st) ==
    LET type == ReadULeb128(buf, st.pos)
        size == ReadULeb128(buf, type.pos)
        r == ParseElements(buf, [st EXCEPT !.pos = size.pos], 0, size.val, <<>>)
    IN [ret |-> <<kVisibilityEncoded, type.val, r.ret>>, st |-> r.st]

\* The loop of ParseArray: values i..size-1.
ParseArrayValues(buf, st, i, size, ret) ==
    IF i < size
    THEN LET v == ParseValue(buf, st)
         IN ParseArrayValues(buf, v.st, i + 1, size, Append(ret, v.res))
    ELSE [ret |-> ret, st |-> st]

ParseArray(buf, st) ==
    LET size == ReadULeb128(buf, st.pos)
    IN ParseArrayValues(buf, [st EXCEPT !.pos = size.pos], 0, size.val, <<>>)

(***************************************************************************)
(* The container accessor (slicer's dex::Reader) as openDex uses it.       *)
(* A pointer into the buffer is the offset it points at; nullptr is        *)
(* NullPtr.  dataPtr<T>(offset) is the unchecked pointer base + offset.    *)
(***************************************************************************)
NullPtr == -1

dataPtr(offset) == offset

\* The fixed-width little-endian fields of the format's structures.
ReadU1(buf, ptr) == buf[ptr + 1]

ReadU2(buf, ptr) == FromLE(SubSeq(buf, ptr + 1, ptr + 2))

ReadU4(buf, ptr) == FromLE(SubSeq(buf, ptr + 1, ptr + 4))

\* dex::ReadULeb128 on a pointer.
ReadULeb128At(buf, ptr) ==
    LET r == ReadULeb128(buf, ptr + 1)
    IN [val |-> r.val, ptr |-> r.pos - 1]

\* TypeList { u4 size; TypeItem list[]; }, TypeItem { u2 type_idx; }
TypeListSize(buf, ptr) == ReadU4(buf, ptr)

TypeListIdx(buf, ptr, k) == ReadU2(buf, ptr + 4 + 2 * k)

\* AnnotationsDirectoryItem { u4 class_annotations_off, fields_size,
\* methods_size, parameters_size; }, 16 bytes.
DirClassAnnotationsOff(buf, ptr) == ReadU4(buf, ptr)

DirFieldsSize(buf, ptr) == ReadU4(buf, ptr + 4)

DirMethodsSize(buf, ptr) == ReadU4(buf, ptr + 8)

DirParametersSize(buf, ptr) == ReadU4(buf, ptr + 12)

SizeOfDirectory == 16

\* FieldAnnotationsItem, MethodAnnotationsItem, ParameterAnnotationsItem:
\* { u4 field_idx or method_idx; u4 annotations_off; }, 8 bytes each.
SizeOfMemberItem == 8

MemberItemIdx(buf, ptr, k) == ReadU4(buf, ptr + SizeOfMemberItem * k)

MemberItemAnnotationsOff(buf, ptr, k) == ReadU4(buf, ptr + SizeOfMemberItem * k + 4)

\* AnnotationSetItem { u4 size; u4 entries[]; } and
\* AnnotationSetRefList { u4 size; AnnotationSetRefItem list[]; },
\* AnnotationSetRefItem { u4 annotations_off; }
SetSize(buf, ptr) == ReadU4(buf, ptr)

SetEntry(buf, ptr, k) == ReadU4(buf, ptr + 4 + 4 * k)

\* AnnotationItem { u1 visibility; u1 annotation[]; }
ItemVisibility(buf, ptr) == ReadU1(buf, ptr)

ItemAnnotation(ptr) == ptr + 1

\* static_cast<jint> of an index or flags word (all below 2^31 here).
ToJInt(v) == v

\* dex::kNoIndex (0xffffffff) stored in a std::vector<jint>.
kNoIndex == -1

(***************************************************************************)
(* ParseAnnotationSet.  st is the decoder state of ParseValue; `indices`   *)
(* the output vector.  Returns the extended indices and the new state.     *)
(***************************************************************************)
\* A variant that writes the visibility to the first record of the pool.
SetFrontVisibility(annotation_list, visibility) ==
    [annotation_list EXCEPT ![1] = <<visibility, @[2], @[3]>>]

\* visibility = item->visibility, through the reference emplace_back returned.
SetBackVisibility(annotation_list, visibility) ==
    [annotation_list EXCEPT ![Len(annotation_list)] = <<visibility, @[2], @[3]>>]

\* annotation_list.emplace_back(r.ret) and the visibility assignment; `at`
\* is where the annotation's bytes start.
StoreSetAnnotation(r, at, visibility) ==
    [r.st EXCEPT
        !.annotation_list = SetBackVisibility(Append(@, r.ret), visibility),
        !.log = Append(@, StoreEvent("annotation", at, Len(r.st.annotation_list)))]

RECURSIVE ParseSetEntries(_, _, _, _, _)
ParseSetEntries(buf, st, indices, annotation_set, k) ==
    IF k < SetSize(buf, annotation_set)
    THEN LET item == dataPtr(SetEntry(buf, annotation_set, k))
             annotation_data == ItemAnnotation(item)
             index == Len(st.annotation_list)
         IN ParseSetEntries(buf,
                StoreSetAnnotation(
                    ParseAnnotation(buf,
                        [st EXCEPT !.pos = annotation_data + 1,
                                   !.log = Append(@, RefEvent("annotation", annotation_data + 1, index))]),
                    annotation_data + 1, ItemVisibility(buf, item)),
                Append(indices, index), annotation_set, k + 1)
    ELSE [indices |-> indices, st |-> st]

ParseAnnotationSet(buf, st, indices, annotation_set) ==
    IF annotation_set = NullPtr
    THEN [indices |-> indices, st |-> st]
    ELSE ParseSetEntries(buf, st, indices, annotation_set, 0)

(***************************************************************************)
(* openDex, step 6: the structural decode of one class definition.         *)
(***************************************************************************)
\* A default-constructed DexParser::ClassData.
EmptyClassData ==
    [interfaces |-> <<>>,
     static_fields |-> <<>>, static_fields_access_flags |-> <<>>,
     instance_fields |-> <<>>, instance_fields_access_flags |-> <<>>,
     direct_methods |-> <<>>, direct_methods_access_flags |-> <<>>,
     direct_methods_code |-> <<>>,
     virtual_methods |-> <<>>, virtual_methods_access_flags |-> <<>>,
     virtual_methods_code |-> <<>>,
     annotations |-> <<>>]

\* A variant that leaves one entry where there is no interface list.
ParseInterfacesPlaceholder(buf, interfaces_off) ==
    IF interfaces_off # 0
    THEN [k \in 1..TypeListSize(buf, dataPtr(interfaces_off)) |->
             ToJInt(TypeListIdx(buf, dataPtr(interfaces_off), k - 1))]
    ELSE <<kNoIndex>>

\* if (class_def.interfaces_off) { ... }
ParseInterfaces(buf, interfaces_off) ==
    IF interfaces_off # 0
    THEN LET defined_interfaces == dataPtr(interfaces_off)
         IN [k \in 1..TypeListSize(buf, defined_interfaces) |->
                ToJInt(TypeListIdx(buf, defined_interfaces, k - 1))]
    ELSE <<>>

\* The annotations-directory locals of one iteration.
LocateAnnotations(buf, annotations_off) ==
    IF annotations_off # 0
    THEN LET annotations == dataPtr(annotations_off)
         IN [annotations |-> annotations,
             class_annotation |->
                 IF DirClassAnnotationsOff(buf, annotations) # 0
                 THEN dataPtr(DirClassAnnotationsOff(buf, annotations))
                 ELSE NullPtr,
             field_annotations_count |-> DirFieldsSize(buf, annotations),
             method_annotations_count |-> DirMethodsSize(buf, annotations),
             parameter_annotations_count |-> DirParametersSize(buf, annotations)]
    ELSE [annotations |-> NullPtr, class_annotation |-> NullPtr,
          field_annotations_count |-> 0, method_annotations_count |-> 0,
          parameter_annotations_count |-> 0]

ListStartIdxCarried(carried) == carried

\* `field_idx = 0` / `method_idx = 0` in the init of each of the four loops;
\* carried is where the previous loop's running index ended.
ListStartIdx(carried) == 0

NextIdxNoSum(idx, delta) == delta

\* field_idx += ReadULeb128(...); method_idx += ReadULeb128(...)
NextIdx(idx, delta) == idx + delta

\* One field loop: entries k..count-1.  ptr is class_data_ptr.
RECURSIVE DecodeFields(_, _, _, _, _, _, _)
DecodeFields(buf, ptr, k, count, field_idx, fields, access_flags) ==
    IF k < count
    THEN LET delta == ReadULeb128At(buf, ptr)
             idx == NextIdx(field_idx, delta.val)
             flags == ReadULeb128At(buf, delta.ptr)
         IN DecodeFields(buf, flags.ptr, k + 1, count, idx,
                         Append(fields, ToJInt(idx)), Append(access_flags, ToJInt(flags.val)))
    ELSE [ptr |-> ptr, idx |-> field_idx, list |-> fields, access_flags |-> access_flags]

\* One method loop: entries k..count-1.
RECURSIVE DecodeMethods(_, _, _, _, _, _, _, _)
DecodeMethods(buf, ptr, k, count, method_idx, methods, access_flags, code) ==
    IF k < count
    THEN LET delta == ReadULeb128At(buf, ptr)
             idx == NextIdx(method_idx, delta.val)
             flags == ReadULeb128At(buf, delta.ptr)
             code_off == ReadULeb128At(buf, flags.ptr)
         IN DecodeMethods(buf, code_off.ptr, k + 1, count, idx,
                          Append(methods, ToJInt(idx)), Append(access_flags, ToJInt(flags.val)),
                          Append(code, IF code_off.val # 0 THEN dataPtr(code_off.val) ELSE NullPtr))
    ELSE [ptr |-> ptr, idx |-> method_idx, list |-> methods, access_flags |-> access_flags,
          code |-> code]

\* A variant that gives up the whole class when it has no class data.
ParseClassDataOrNothing(buf, class_data_off, class_data) ==
    IF class_data_off # 0 THEN class_data ELSE EmptyClassData

\* if (class_def.class_data_off != 0) { counts, resize } if (class_data_ptr) { four loops }
ParseClassData(buf, class_data_off, class_data) ==
    IF class_data_off # 0
    THEN LET class_data_ptr == dataPtr(class_data_off)
             static_fields_count == ReadULeb128At(buf, class_data_ptr)
             instance_fields_count == ReadULeb128At(buf, static_fields_count.ptr)
             direct_methods_count == ReadULeb128At(buf, instance_fields_count.ptr)
             virtual_methods_count == ReadULeb128At(buf, direct_methods_count.ptr)
             sf == DecodeFields(buf, virtual_methods_count.ptr, 0, static_fields_count.val,
                                ListStartIdx(0), <<>>, <<>>)
             if == DecodeFields(buf, sf.ptr, 0, instance_fields_count.val,
                                ListStartIdx(sf.idx), <<>>, <<>>)
             dm == DecodeMethods(buf, if.ptr, 0, direct_methods_count.val,
                                 ListStartIdx(if.idx), <<>>, <<>>, <<>>)
             vm == DecodeMethods(buf, dm.ptr, 0, virtual_methods_count.val,
                                 ListStartIdx(dm.idx), <<>>, <<>>, <<>>)
         IN [class_data EXCEPT
                !.static_fields = sf.list,
                !.static_fields_access_flags = sf.access_flags,
                !.instance_fields = if.list,
                !.instance_fields_access_flags = if.access_flags,
                !.direct_methods = dm.list,
                !.direct_methods_access_flags = dm.access_flags,
                !.direct_methods_code = dm.code,
                !.virtual_methods = vm.list,
                !.virtual_methods_access_flags = vm.access_flags,
                !.virtual_methods_code = vm.code]
    ELSE class_data

(***************************************************************************)
(* openDex, step 6 continued: the annotation pass of one class definition. *)
(* The phmap maps are functions from the keys present to index vectors;    *)
(* operator[] on an absent key inserts an empty vector.                    *)
(***************************************************************************)
EmptyMap == [key \in {} |-> <<>>]

MapGet(map, key) == IF key \in DOMAIN map THEN map[key] ELSE <<>>

MapPut(map, key, indices) ==
    [x \in (DOMAIN map) \cup {key} |-> IF x = key THEN indices ELSE map[x]]

\* map[key] = r.indices, for the index vector r.indices that
\* ParseAnnotationSet extended in place.
PutIndices(map, key, r) == [map |-> MapPut(map, key, r.indices), st |-> r.st]

\* The field loop and the method loop: items k..count-1 of the array at
\* `items`; M.map is dex.field_annotations or dex.method_annotations, M.st
\* the decoder state.
RECURSIVE ParseMemberAnnotations(_, _, _, _, _)
ParseMemberAnnotations(buf, M, items, k, count) ==
    IF k < count
    THEN LET annotation_set == dataPtr(MemberItemAnnotationsOff(buf, items, k))
             key == ToJInt(MemberItemIdx(buf, items, k))
         IN ParseMemberAnnotations(buf,
                PutIndices(M.map, key,
                    ParseAnnotationSet(buf, M.st, MapGet(M.map, key), annotation_set)),
                items, k + 1, count)
    ELSE M

\* A variant that emits no sentinel.
AppendNothing(r) == r

\* indices.emplace_back(dex::kNoIndex)
AppendNoIndex(r) == [r EXCEPT !.indices = Append(@, kNoIndex)]

\* The inner loop over one method's AnnotationSetRefList: entries l..size-1;
\* R.indices is the method's index vector, R.st the decoder state.
RECURSIVE ParseParameterList(_, _, _, _)
ParseParameterList(buf, R, parameter_annotation, l) ==
    IF l < SetSize(buf, parameter_annotation)
    THEN LET annotations_off == SetEntry(buf, parameter_annotation, l)
         IN ParseParameterList(buf,
                AppendNoIndex(IF annotations_off # 0
                              THEN ParseAnnotationSet(buf, R.st, R.indices, dataPtr(annotations_off))
                              ELSE R),
                parameter_annotation, l + 1)
    ELSE R

\* The parameter loop: items k..count-1.
RECURSIVE ParseParameterAnnotations(_, _, _, _, _)
ParseParameterAnnotations(buf, M, items, k, count) ==
    IF k < count
    THEN LET parameter_annotation == dataPtr(MemberItemAnnotationsOff(buf, items, k))
             key == ToJInt(MemberItemIdx(buf, items, k))
         IN ParseParameterAnnotations(buf,
                PutIndices(M.map, key,
                    ParseParameterList(buf, [indices |-> MapGet(M.map, key), st |-> M.st],
                                       parameter_annotation, 0)),
                items, k + 1, count)
    ELSE M

\* The item arrays that follow the directory header: field_annotations =
\* annotations + 1, method_annotations = field_annotations + count, ...
FieldItems(loc) ==
    IF loc.annotations # NullPtr THEN loc.annotations + SizeOfDirectory ELSE NullPtr

MethodItems(loc) ==
    IF FieldItems(loc) # NullPtr
    THEN FieldItems(loc) + SizeOfMemberItem * loc.field_annotations_count
    ELSE NullPtr

ParameterItems(loc) ==
    IF MethodItems(loc) # NullPtr
    THEN MethodItems(loc) + SizeOfMemberItem * loc.method_annotations_count
    ELSE NullPtr

\* The four parts of the annotation pass.  loc are the directory locals, S
\* the session state the pass reads and writes:
\*   class_data (the entry of this class), st (pools and log),
\*   field_annotations, method_annotations, parameter_annotations.
SetClassAnnotations(S, r) == [S EXCEPT !.st = r.st, !.class_data.annotations = r.indices]

SetFieldAnnotations(S, M) == [S EXCEPT !.st = M.st, !.field_annotations = M.map]

SetMethodAnnotations(S, M) == [S EXCEPT !.st = M.st, !.method_annotations = M.map]

SetParameterAnnotations(S, M) == [S EXCEPT !.st = M.st, !.parameter_annotations = M.map]

ParseClassSet(buf, loc, S) ==
    SetClassAnnotations(S,
        ParseAnnotationSet(buf, S.st, S.class_data.annotations, loc.class_annotation))

ParseFieldSets(buf, loc, S) ==
    SetFieldAnnotations(S,
        ParseMemberAnnotations(buf, [map |-> S.field_annotations, st |-> S.st],
                               FieldItems(loc), 0, loc.field_annotations_count))

ParseMethodSets(buf, loc, S) ==
    SetMethodAnnotations(S,
        ParseMemberAnnotations(buf, [map |-> S.method_annotations, st |-> S.st],
                               MethodItems(loc), 0, loc.method_annotations_count))

ParseParameterSets(buf, loc, S) ==
    SetParameterAnnotations(S,
        ParseParameterAnnotations(buf, [map |-> S.parameter_annotations, st |-> S.st],
                                  ParameterItems(loc), 0, loc.parameter_annotations_count))

\* Everything after `if (!include_annotations) continue;`.
ParseClassAnnotations(buf, loc, S) ==
    ParseParameterSets(buf, loc,
        ParseMethodSets(buf, loc, ParseFieldSets(buf, loc, ParseClassSet(buf, loc, S))))

\* A variant without the `continue`.
AlwaysAnnotated(buf, class_def, include, S) ==
    ParseClassAnnotations(buf, LocateAnnotations(buf, class_def.annotations_off),
        [S EXCEPT !.class_data =
            ParseClassData(buf, class_def.class_data_off,
                [@ EXCEPT !.interfaces = ParseInterfaces(buf, class_def.interfaces_off)])])

\* The body of the class loop for one class_def.
DecodeClassDef(buf, class_def, include, S) ==
    IF include
    THEN ParseClassAnnotations(buf, LocateAnnotations(buf, class_def.annotations_off),
             [S EXCEPT !.class_data =
                 ParseClassData(buf, class_def.class_data_off,
                     [@ EXCEPT !.interfaces = ParseInterfaces(buf, class_def.interfaces_off)])])
    ELSE [S EXCEPT !.class_data =
             ParseClassData(buf, class_def.class_data_off,
                 [@ EXCEPT !.interfaces = ParseInterfaces(buf, class_def.interfaces_off)])]

(***************************************************************************)
(* visitClass: the bytecode scan of one method body.                       *)
(*                                                                         *)
(* insns is the buffer from code->insns on, as 16-bit code units (the      *)
(* units of the body, then whatever follows it in the file); a pointer     *)
(* into it is a 0-based unit index.  The scan state b holds                *)
(*   inst              the instruction pointer                             *)
(*   opcodes           body.opcodes (signed bytes)                         *)
(*   referred_strings, accessed_fields, assigned_fields, invoked_methods   *)
(*                     the four local hash sets                            *)
(***************************************************************************)
kOpcodeMask == 255

kOpcodeNoOp == 0

kOpcodeConstString == 26

kOpcodeConstStringJumbo == 27

kOpcodeIGetStart == 82

kOpcodeIGetEnd == 88

kOpcodeSGetStart == 96

kOpcodeSGetEnd == 102

kOpcodeIPutStart == 89

kOpcodeIPutEnd == 95

kOpcodeSPutStart == 103

kOpcodeSPutEnd == 109

kOpcodeInvokeStart == 110

kOpcodeInvokeEnd == 114

kOpcodeInvokeRangeStart == 116

kOpcodeInvokeRangeEnd == 120

kInstPackedSwitchPlayLoad == 256

kInstSparseSwitchPlayLoad == 512

kInstFillArrayDataPlayLoad == 768

\* dex::opcode_len[opcode]: the width in code units of the instruction
\* format of each Dalvik opcode (unused opcodes take one unit).
OpcodeLen(opcode) ==
    CASE opcode \in {24} -> 5
      [] opcode \in {250, 251} -> 4
      [] opcode \in {3, 6, 9, 20, 23, 27, 36, 37, 38, 42, 43, 44, 252, 253}
                   \cup (110..114) \cup (116..120) -> 3
      [] opcode \in {2, 5, 8, 19, 21, 22, 25, 26, 28, 31, 32, 34, 35, 41, 254, 255}
                   \cup (45..61) \cup (68..109) \cup (144..175) \cup (208..226) -> 2
      [] OTHER -> 1

\* inst[k]
InstUnit(insns, inst, k) == insns[inst + k + 1]

\* *reinterpret_cast<const dex::u4 *>(&inst[k])
InstU4(insns, inst, k) == InstUnit(insns, inst, k) + 65536 * InstUnit(insns, inst, k + 1)

\* dex::u1 opcode = *inst & kOpcodeMask;
OpcodeOf(unit) == unit % (kOpcodeMask + 1)

\* The opcode tests of the loop body.
IsFieldGet(opcode) ==
    \/ (opcode >= kOpcodeIGetStart /\ opcode <= kOpcodeIGetEnd)
    \/ (opcode >= kOpcodeSGetStart /\ opcode <= kOpcodeSGetEnd)

IsFieldPut(opcode) ==
    \/ (opcode >= kOpcodeIPutStart /\ opcode <= kOpcodeIPutEnd)
    \/ (opcode >= kOpcodeSPutStart /\ opcode <= kOpcodeSPutEnd)

\* A variant with no gap between invoke and invoke/range.
IsInvokeNoGap(opcode) == opcode >= kOpcodeInvokeStart /\ opcode <= kOpcodeInvokeRangeEnd

IsInvoke(opcode) ==
    \/ (opcode >= kOpcodeInvokeStart /\ opcode <= kOpcodeInvokeEnd)
    \/ (opcode >= kOpcodeInvokeRangeStart /\ opcode <= kOpcodeInvokeRangeEnd)

\* The product of two u2 values, as its low and its high 16 bits.
WideMul(a, b) ==
    LET q == (a \div 256) * b
        low == (a % 256) * b + (q % 256) * 256
    IN <<low % 65536, (q \div 256 + low \div 65536) % 65536>>

\* (*reinterpret_cast<const dex::u4 *>(&inst[2]) * inst[1] + 1) / 2 + 3 in
\* unsigned 32-bit arithmetic: the size is the u4 of the units size_lo and
\* size_hi, the product and the sum wrap at 2^32.
FillArrayDataSkip(size_lo, size_hi, element_width) ==
    LET lo == WideMul(size_lo, element_width)[1]
        hi == (WideMul(size_lo, element_width)[2] + WideMul(size_hi, element_width)[1]) % 65536
        sum_lo == (lo + 1) % 65536
        sum_hi == IF lo = 65535 THEN (hi + 1) % 65536 ELSE hi
    IN sum_hi * 32768 + sum_lo \div 2 + 3

\* A variant that skips the header of a payload only.
PayloadSkipHeader(insns, inst) == 0

\* if (opcode == kOpcodeNoOp) { ... }: what is added to inst for a payload,
\* before the length of the no-op itself.
PayloadSkip(insns, inst) ==
    IF OpcodeOf(InstUnit(insns, inst, 0)) = kOpcodeNoOp
    THEN IF InstUnit(insns, inst, 0) = kInstPackedSwitchPlayLoad
         THEN InstUnit(insns, inst, 1) * 2 + 3
         ELSE IF InstUnit(insns, inst, 0) = kInstSparseSwitchPlayLoad
         THEN InstUnit(insns, inst, 1) * 4 + 1
         ELSE IF InstUnit(insns, inst, 0) = kInstFillArrayDataPlayLoad
         THEN FillArrayDataSkip(InstUnit(insns, inst, 2), InstUnit(insns, inst, 3),
                                InstUnit(insns, inst, 1))
         ELSE 0
    ELSE 0

\* The offsets from inst of the units one iteration of the loop reads:
\* *inst, inst[1] of the instructions of interest, the u4 at inst[1] of
\* const-string/jumbo, inst[1] of a switch payload, inst[1] and the u4 at
\* inst[2] of a fill-array-data payload.
UnitsRead(insns, inst) ==
    LET unit == InstUnit(insns, inst, 0)
        opcode == OpcodeOf(unit)
    IN  {0}
        \cup (IF opcode = kOpcodeConstString THEN {1} ELSE {})
        \cup (IF opcode = kOpcodeConstStringJumbo THEN {1, 2} ELSE {})
        \cup (IF IsFieldGet(opcode) \/ IsFieldPut(opcode) \/ IsInvoke(opcode) THEN {1} ELSE {})
        \cup (IF opcode = kOpcodeNoOp
              THEN IF unit = kInstPackedSwitchPlayLoad \/ unit = kInstSparseSwitchPlayLoad
                   THEN {1}
                   ELSE IF unit = kInstFillArrayDataPlayLoad THEN {1, 2, 3} ELSE {}
              ELSE {})

\* inst += skip; inst += len on a `const dex::u2 *`.  A build with 64-bit
\* pointers holds every sum (a cursor that no numeral of the model holds is
\* kept as the largest one: it is past every end).  In a build with 32-bit
\* pointers the byte address wraps at 2^32, that is the unit index at 2^31;
\* the code is taken to lie too low in the address space for a smaller sum
\* to wrap.
AdvanceInst(is64, inst, skip, len) ==
    IF inst + len <= 2147483647 - skip THEN inst + skip + len
    ELSE IF is64 THEN 2147483647
    ELSE (inst + len) - (2147483647 - skip) - 1

\* The state in which the scan of a body starts (with the pointer width of
\* the build, lspd::kIs64Bit).
ScanStart ==
    [inst |-> 0, opcodes |-> <<>>, referred_strings |-> {}, accessed_fields |-> {},
     assigned_fields |-> {}, invoked_methods |-> {}, kIs64Bit |-> TRUE]

\* One iteration of `while (inst < end)`.
ScanStep(insns, b) ==
    LET opcode == OpcodeOf(InstUnit(insns, b.inst, 0))
    IN [kIs64Bit |-> b.kIs64Bit,
        inst |-> AdvanceInst(b.kIs64Bit, b.inst, PayloadSkip(insns, b.inst), OpcodeLen(opcode)),
        opcodes |-> Append(b.opcodes, JByte(opcode)),
        referred_strings |->
            b.referred_strings
            \cup (IF opcode = kOpcodeConstString THEN {InstUnit(insns, b.inst, 1)} ELSE {})
            \cup (IF opcode = kOpcodeConstStringJumbo THEN {ToJInt(InstU4(insns, b.inst, 1))}
                  ELSE {}),
        accessed_fields |->
            b.accessed_fields
            \cup (IF IsFieldGet(opcode) THEN {InstUnit(insns, b.inst, 1)} ELSE {}),
        assigned_fields |->
            b.assigned_fields
            \cup (IF IsFieldPut(opcode) THEN {InstUnit(insns, b.inst, 1)} ELSE {}),
        invoked_methods |->
            b.invoked_methods
            \cup (IF IsInvoke(opcode) THEN {InstUnit(insns, b.inst, 1)} ELSE {})]

\* The whole loop, from the state b on.
RECURSIVE ScanFrom(_, _, _)
ScanFrom(insns, insns_size, b) ==
    IF b.inst < insns_size THEN ScanFrom(insns, insns_size, ScanStep(insns, b)) ELSE b

\* The four index vectors of a MethodBody are kept as the number of times
\* each index is in the vector (their order is that of the hash set's
\* iteration).  A default-constructed DexParser::MethodBody:
EmptyMethodBody ==
    [loaded |-> FALSE, referred_strings |-> <<>>, accessed_fields |-> <<>>,
     assigned_fields |-> <<>>, invoked_methods |-> <<>>, opcodes |-> <<>>]

\* A variant that leaves what the vector held and adds the set to it.
AssignAppended(set) == [x \in set |-> 2]

\* vector.assign(set.begin(), set.end())
Assign(set) == [x \in set |-> 1]

\* body.referred_strings.assign(...) ... body.loaded = true, after the loop.
LoadBody(b) ==
    [loaded |-> TRUE, referred_strings |-> Assign(b.referred_strings),
     accessed_fields |-> Assign(b.accessed_fields),
     assigned_fields |-> Assign(b.assigned_fields),
     invoked_methods |-> Assign(b.invoked_methods), opcodes |-> b.opcodes]

(***************************************************************************)
(* visitClass: the traversal.                                              *)
(*                                                                         *)
(* The Java visitor is the environment: what its callbacks return is       *)
(* chosen by the actions.  A member visitor is described by                *)
(*   [null, field, method]                                                 *)
(* null for no object, field and method for IsInstanceOf of the field and  *)
(* of the method visitor class.  A position in the two member lists of a   *)
(* class is [list, j]: list 1 or 2 and the 0-based j of the inner loop,    *)
(* list 3 when both loops are left.                                        *)
(***************************************************************************)
NoVisitor == [null |-> TRUE, field |-> FALSE, method |-> FALSE]

Visitors ==
    {NoVisitor} \cup {[null |-> FALSE, field |-> f, method |-> m] : f, m \in BOOLEAN}

AnyVisitorIsFieldVisitor(member_visitor) == ~member_visitor.null

\* member_visitor && env->IsInstanceOf(member_visitor, field_visitor_class)
IsFieldVisitor(member_visitor) == ~member_visitor.null /\ member_visitor.field

\* member_visitor && env->IsInstanceOf(member_visitor, method_visitor_class)
IsMethodVisitor(member_visitor) == ~member_visitor.null /\ member_visitor.method

\* The two lists the field loops run over, and the two of the method loops.
FieldLists(cd) ==
    <<[idx |-> cd.static_fields, flags |-> cd.static_fields_access_flags],
      [idx |-> cd.instance_fields, flags |-> cd.instance_fields_access_flags]>>

VirtualFirst(cd) ==
    <<[idx |-> cd.virtual_methods, flags |-> cd.virtual_methods_access_flags,
       code |-> cd.virtual_methods_code],
      [idx |-> cd.direct_methods, flags |-> cd.direct_methods_access_flags,
       code |-> cd.direct_methods_code]>>

MethodLists(cd) ==
    <<[idx |-> cd.direct_methods, flags |-> cd.direct_methods_access_flags,
       code |-> cd.direct_methods_code],
      [idx |-> cd.virtual_methods, flags |-> cd.virtual_methods_access_flags,
       code |-> cd.virtual_methods_code]>>

LoopsLeft == [list |-> 3, j |-> 0]

\* The loop tests `j < size` of the inner loop and the step of the outer
\* one: the first member at or after position (l, j).
RECURSIVE FirstFrom(_, _, _)
FirstFrom(lists, l, j) ==
    IF l > 2 THEN LoopsLeft
    ELSE IF j < Len(lists[l].idx) THEN [list |-> l, j |-> j]
    ELSE FirstFrom(lists, l + 1, 0)

FieldBreakInner(lists, l) == FirstFrom(lists, l + 1, 0)

\* `if (stopped == JNI_TRUE) break;` in the inner and in the outer field
\* loop.
FieldBreak(lists, l) == LoopsLeft

MethodBreakInner(lists, l) == FirstFrom(lists, l + 1, 0)

\* The same two breaks of the method loops.
MethodBreak(lists, l) == LoopsLeft

AfterField(lists, l, j, stopped) ==
    IF stopped THEN FieldBreak(lists, l) ELSE FirstFrom(lists, l, j + 1)

AfterMethod(lists, l, j, stopped) ==
    IF stopped THEN MethodBreak(lists, l) ELSE FirstFrom(lists, l, j + 1)

\* Where visitClass is once it stands at position pos of a member phase:
\* in that phase, or (both loops left) at `otherwise`.
AtMember(phase, pos, otherwise) ==
    IF pos.list <= 2 THEN [pc |-> phase, pos |-> pos] ELSE otherwise

\* The query of the class-level stop, after the member phases.
ClassStopPoint == [pc |-> "stop", pos |-> LoopsLeft]

\* From `// --- Visit methods ---` on.
MethodPhase(cd, member_visitor) ==
    IF IsMethodVisitor(member_visitor)
    THEN AtMember("methods", FirstFrom(MethodLists(cd), 1, 0), ClassStopPoint)
    ELSE ClassStopPoint

\* From `// --- Visit fields ---` on.
FieldPhase(cd, member_visitor) ==
    IF IsFieldVisitor(member_visitor)
    THEN AtMember("fields", FirstFrom(FieldLists(cd), 1, 0), MethodPhase(cd, member_visitor))
    ELSE MethodPhase(cd, member_visitor)

\* A variant that erases the key.
Forget(map, key) == [k \in (DOMAIN map) \ {key} |-> map[k]]

\* map[key] of a phmap::flat_hash_map of index vectors: the key is
\* inserted with an empty vector when it is absent.
Touch(map, key) == MapPut(map, key, MapGet(map, key))

\* dex.method_bodies[method_idx]
BodyOf(method_bodies, method_idx) ==
    IF method_idx \in DOMAIN method_bodies THEN method_bodies[method_idx]
    ELSE EmptyMethodBody

\* dex::Code: insns_size at byte 12 of the code item, insns from byte 16 on
\* (here: up to the end of the buffer).
CodeInsnsSize(buf, code) == ReadU4(buf, code + 12)

CodeInsns(buf, code) ==
    [k \in 1..((Len(buf) - (code + 16)) \div 2) |-> ReadU2(buf, code + 16 + 2 * (k - 1))]

BodyNeverLoaded(body) == FALSE

\* body.loaded
BodyLoaded(body) == body.loaded

\* The scan of the code item at `code` into `body`: the trace is pushed
\* onto body.opcodes, the sets are collected in fresh local sets.
ScanBody(buf, code, body) ==
    LoadBody(ScanFrom(CodeInsns(buf, code), CodeInsnsSize(buf, code),
                      [ScanStart EXCEPT !.opcodes = body.opcodes]))

\* `if (!body.loaded) { ... }`: the body after it, and whether the scan ran.
LoadedBody(buf, code, body) ==
    IF BodyLoaded(body) THEN [body |-> body, scanned |-> FALSE]
    ELSE [body |-> ScanBody(buf, code, body), scanned |-> TRUE]

\* The callbacks, as they are recorded in the histories.
ClassEvent(i) == [ev |-> "class", i |-> i]

FieldEvent(field_idx, access_flags, annotations) ==
    [ev |-> "field", idx |-> field_idx, flags |-> access_flags, annotations |-> annotations]

\* body_visitor: whether the callback returned an object.
MethodEvent(method_idx, access_flags, has_code, annotations, parameter_annotations, body_visitor) ==
    [ev |-> "method", idx |-> method_idx, flags |-> access_flags, has_code |-> has_code,
     annotations |-> annotations, parameter_annotations |-> parameter_annotations,
     body_visitor |-> body_visitor]

BodyEvent(method_idx, L) ==
    [ev |-> "body", idx |-> method_idx, scanned |-> L.scanned,
     referred_strings |-> L.body.referred_strings,
     invoked_methods |-> L.body.invoked_methods,
     accessed_fields |-> L.body.accessed_fields,
     assigned_fields |-> L.body.assigned_fields, opcodes |-> L.body.opcodes]

MemberStopEvent(stopped) == [ev |-> "member_stop", stopped |-> stopped]

ClassStopEvent(i, stopped) == [ev |-> "stop", i |-> i, stopped |-> stopped]

(***************************************************************************)
(* Reference writer of the encoded_value grammar, used to build the byte   *)
(* streams the decoder is run on.  An input value is a tree                *)
(*   [kind, type, arg, payload, kids]                                      *)
(* with kind "leaf" (a numeric or index value: header, then payload),      *)
(* "null", "boolean" (arg is the value), "array" and "annotation" (kids    *)
(* are the values; element j of an annotation is named ElementName(j)).    *)
(***************************************************************************)
RECURSIVE EncodeULeb128(_)
EncodeULeb128(v) ==
    IF v < 128 THEN <<v>> ELSE <<128 + (v % 128)>> \o EncodeULeb128(v \div 128)

Header(type, arg) == arg * Pow2(kEncodedValueArgShift) + type

Leaf(type, payload) ==
    [kind |-> "leaf", type |-> type, arg |-> Len(payload) - 1, payload |-> payload, kids |-> <<>>]

NullValue == [kind |-> "null", type |-> kEncodedNull, arg |-> 0, payload |-> <<>>, kids |-> <<>>]

BooleanValue(b) ==
    [kind |-> "boolean", type |-> kEncodedBoolean, arg |-> b, payload |-> <<>>, kids |-> <<>>]

ArrayValue(kids) ==
    [kind |-> "array", type |-> kEncodedArray, arg |-> 0, payload |-> <<>>, kids |-> kids]

AnnotationValue(kids) ==
    [kind |-> "annotation", type |-> kEncodedAnnotation, arg |-> 0, payload |-> <<>>, kids |-> kids]

\* The type index written for an annotation, and the name index of its
\* j-th element (j from 1): any indices would do; these take two bytes and
\* one byte of ULEB128.
AnnotationTypeIdx(kids) == 200 + Len(kids)

ElementName(j) == 10 + j

RECURSIVE EncodeValue(_)
RECURSIVE EncodeAnnotation(_)
RECURSIVE EncodeArray(_)
RECURSIVE EncodeKids(_, _, _)

\* The encodings of kids[j..], each preceded by its name index when named.
EncodeKids(kids, j, named) ==
    IF j > Len(kids) THEN <<>>
    ELSE (IF named THEN EncodeULeb128(ElementName(j)) ELSE <<>>)
         \o EncodeValue(kids[j]) \o EncodeKids(kids, j + 1, named)

EncodeArray(kids) == EncodeULeb128(Len(kids)) \o EncodeKids(kids, 1, FALSE)

EncodeAnnotation(kids) ==
    EncodeULeb128(AnnotationTypeIdx(kids)) \o EncodeULeb128(Len(kids)) \o EncodeKids(kids, 1, TRUE)

EncodeValue(d) ==
    CASE d.kind = "leaf" -> <<Header(d.type, d.arg)>> \o d.payload
      [] d.kind = "null" -> <<Header(d.type, 0)>>
      [] d.kind = "boolean" -> <<Header(d.type, d.arg)>>
      [] d.kind = "array" -> <<Header(d.type, 0)>> \o EncodeArray(d.kids)
      [] d.kind = "annotation" -> <<Header(d.type, 0)>> \o EncodeAnnotation(d.kids)

(***************************************************************************)
(* The inputs of the value decoder.                                        *)
(***************************************************************************)
\* Payload bytes: zero, a byte with the high bit clear, one with it set.
ByteSamples == {0, 63, 255}

SignedValueTypes == {kEncodedByte, kEncodedShort, kEncodedInt, kEncodedLong}

UnsignedValueTypes == IntValueTypes \ SignedValueTypes

\* The width in bytes of each numeric and index value type.
WidthOf(type) ==
    CASE type = kEncodedByte -> 1
      [] type \in {kEncodedShort, kEncodedChar} -> 2
      [] type \in {kEncodedLong, kEncodedDouble} -> 8
      [] OTHER -> 4

Payloads(width) == UNION {[1..size -> ByteSamples] : size \in 1..width}

\* Every numeric and index type at every size up to its width.
LeafInputs ==
    UNION {{Leaf(type, p) : p \in Payloads(WidthOf(type))} :
           type \in IntValueTypes \cup FloatValueTypes}

\* The values without children that the nested inputs are built from.
TreeLeaves ==
    {NullValue, BooleanValue(1), Leaf(kEncodedString, <<63, 255>>)}

\* TreesOfSize[n].t: the values of exactly n nodes; .f: the sequences of
\* values of n nodes in all.
TreesOfSize[n \in 0..(MaxNodes + 1)] ==
    IF n = 0 THEN [t |-> {}, f |-> {<<>>}]
    ELSE LET below == TreesOfSize[n - 1].f
             t == (IF n = 1 THEN TreeLeaves ELSE {})
                  \cup {ArrayValue(kids) : kids \in below}
                  \cup {AnnotationValue(kids) : kids \in below}
         IN [t |-> t,
             f |-> {<<a>> : a \in t}
                   \cup UNION {{<<a>> \o b : a \in TreesOfSize[k].t, b \in TreesOfSize[n - k].f} :
                               k \in 1..(n - 1)}]

TreeInputs == UNION {TreesOfSize[n].t : n \in 1..MaxNodes}

ValueInputs == LeafInputs \cup TreeInputs \cup {BooleanValue(0)}

\* Bytes that follow the value in the stream and belong to something else.
Trailer == <<170, 187>>

(***************************************************************************)
(* Reference writer of the class-level structures: it lays out a buffer    *)
(* from a description of the classes and returns the ClassDefs table that  *)
(* the container accessor would expose.  A class is described by           *)
(*   has_if, ifaces            the interface list (type indices)           *)
(*   has_data, sf, inf, dm, vm the four member lists; a member is          *)
(*                             [delta, flags, has_code, insns]             *)
(*   has_ann                   the annotations directory, with             *)
(*   has_cls_set, cls_set      the class annotation set; an annotation is  *)
(*                             [vis, kids]                                 *)
(*   fann, mann                field / method items [idx, set]             *)
(*   pann                      parameter items [idx, sets], sets a list of *)
(*                             [has, set]                                  *)
(***************************************************************************)
U2(v) == ToLE(v, 2)

U4(v) == ToLE(v, 4)

\* The buffer with `bytes` appended, and the offset they were put at.
Put(img, bytes) == [img |-> img \o bytes, off |-> Len(img)]

RECURSIVE Flatten(_)
Flatten(seqs) == IF seqs = <<>> THEN <<>> ELSE Head(seqs) \o Flatten(Tail(seqs))

\* The start of a dex file: the magic (the rest of the header is not read
\* by the decoder and is left out).
HeaderBytes == <<100, 101, 120, 10, 48, 51, 53, 0>>

\* Code { u2 registers_size, ins_size, outs_size, tries_size;
\*        u4 debug_info_off; u4 insns_size; u2 insns[]; }
CodeBytes(insns) ==
    U2(1) \o U2(0) \o U2(0) \o U2(0) \o U4(0) \o U4(Len(insns))
    \o Flatten([k \in 1..Len(insns) |-> U2(insns[k])])

FieldBytes(fields) ==
    Flatten([k \in 1..Len(fields) |->
                EncodeULeb128(fields[k].delta) \o EncodeULeb128(fields[k].flags)])

\* The writers below carry one record W along: W.img is the buffer written
\* so far, the other field what has been collected for the structure that
\* is written last (entry bytes or offsets).

\* W after the method m, whose code item (if any) was put at p.off.
AddMethod(W, m, p) ==
    [img |-> p.img,
     bytes |-> W.bytes \o EncodeULeb128(m.delta) \o EncodeULeb128(m.flags)
               \o EncodeULeb128(p.off)]

\* Writes the code items of methods[k..] and collects their entries.
RECURSIVE WriteMethods(_, _, _)
WriteMethods(W, methods, k) ==
    IF k > Len(methods) THEN W
    ELSE WriteMethods(
             AddMethod(W, methods[k],
                 IF methods[k].has_code THEN Put(W.img, CodeBytes(methods[k].insns))
                 ELSE [img |-> W.img, off |-> 0]),
             methods, k + 1)

PutClassData(c, W) ==
    Put(W.img,
        EncodeULeb128(Len(c.sf)) \o EncodeULeb128(Len(c.inf))
        \o EncodeULeb128(Len(c.dm)) \o EncodeULeb128(Len(c.vm))
        \o FieldBytes(c.sf) \o FieldBytes(c.inf) \o W.bytes)

WriteClassData(img, c) ==
    PutClassData(c, WriteMethods(WriteMethods([img |-> img, bytes |-> <<>>], c.dm, 1), c.vm, 1))

\* W after `bytes` were put and their offset collected.
PutCollect(W, bytes) == [img |-> W.img \o bytes, offs |-> Append(W.offs, Len(W.img))]

\* Writes the annotation items of set[k..] and collects their offsets.
RECURSIVE WriteItems(_, _, _)
WriteItems(W, set, k) ==
    IF k > Len(set) THEN W
    ELSE WriteItems(PutCollect(W, <<set[k].vis>> \o EncodeAnnotation(set[k].kids)), set, k + 1)

\* { u4 size; u4 offsets[]; }: an AnnotationSetItem or AnnotationSetRefList.
PutOffsets(W) ==
    Put(W.img, U4(Len(W.offs)) \o Flatten([k \in 1..Len(W.offs) |-> U4(W.offs[k])]))

WriteSet(img, set) == PutOffsets(WriteItems([img |-> img, offs |-> <<>>], set, 1))

\* W after a structure was put at p.off.
Collect(W, p) == [img |-> p.img, offs |-> Append(W.offs, p.off)]

\* Writes the sets of a parameter reference list; an absent set gets offset 0.
RECURSIVE WriteRefSets(_, _, _)
WriteRefSets(W, sets, k) ==
    IF k > Len(sets) THEN W
    ELSE WriteRefSets(
             Collect(W, IF sets[k].has THEN WriteSet(W.img, sets[k].set)
                        ELSE [img |-> W.img, off |-> 0]),
             sets, k + 1)

WriteRefList(img, sets) == PutOffsets(WriteRefSets([img |-> img, offs |-> <<>>], sets, 1))

\* W after the directory item of index idx, whose set or list is at p.off.
AddItem(W, idx, p) == [W EXCEPT !.img = p.img, !.bytes = @ \o U4(idx) \o U4(p.off)]

\* Writes what the items[k..] of a directory array point at and collects the
\* items' bytes.
RECURSIVE WriteMemberItems(_, _, _, _)
WriteMemberItems(W, items, k, parameters) ==
    IF k > Len(items) THEN W
    ELSE WriteMemberItems(
             AddItem(W, items[k].idx,
                 IF parameters THEN WriteRefList(W.img, items[k].sets)
                 ELSE WriteSet(W.img, items[k].set)),
             items, k + 1, parameters)

\* The directory's W: the class set is at p.off, no item yet.
StartDirectory(p) == [img |-> p.img, bytes |-> <<>>, cls_off |-> p.off]

PutDirectory(c, W) ==
    Put(W.img,
        U4(W.cls_off) \o U4(Len(c.fann)) \o U4(Len(c.mann)) \o U4(Len(c.pann)) \o W.bytes)

WriteDirectory(img, c) ==
    PutDirectory(c,
        WriteMemberItems(
            WriteMemberItems(
                WriteMemberItems(
                    StartDirectory(IF c.has_cls_set THEN WriteSet(img, c.cls_set)
                                   ELSE [img |-> img, off |-> 0]),
                    c.fann, 1, FALSE),
                c.mann, 1, FALSE),
            c.pann, 1, TRUE))

WriteTypeList(img, ifaces) ==
    Put(img, U4(Len(ifaces)) \o Flatten([k \in 1..Len(ifaces) |-> U2(ifaces[k])]))

\* D is [img, def], def the ClassDef entry being filled in.
SetOff(D, field, p) == [img |-> p.img, def |-> [D.def EXCEPT ![field] = p.off]]

WriteInterfacesOf(c, D) ==
    IF c.has_if THEN SetOff(D, "interfaces_off", WriteTypeList(D.img, c.ifaces)) ELSE D

WriteAnnotationsOf(c, D) ==
    IF c.has_ann THEN SetOff(D, "annotations_off", WriteDirectory(D.img, c)) ELSE D

WriteClassDataOf(c, D) ==
    IF c.has_data THEN SetOff(D, "class_data_off", WriteClassData(D.img, c)) ELSE D

\* One class: its sections, then its ClassDef entry.
WriteClass(img, c) ==
    WriteClassDataOf(c, WriteAnnotationsOf(c, WriteInterfacesOf(c,
        [img |-> img,
         def |-> [interfaces_off |-> 0, annotations_off |-> 0, class_data_off |-> 0]])))

AddClass(W, D) == [image |-> D.img, classes |-> Append(W.classes, D.def)]

RECURSIVE WriteClasses(_, _, _)
WriteClasses(W, cs, k) ==
    IF k > Len(cs) THEN W
    ELSE WriteClasses(AddClass(W, WriteClass(W.image, cs[k])), cs, k + 1)

WriteDex(cs) == WriteClasses([image |-> HeaderBytes, classes |-> <<>>], cs, 1)

(***************************************************************************)
(* The inputs of openDex.                                                  *)
(***************************************************************************)
SeqsUpTo(S, n) == UNION {[1..k -> S] : k \in 0..n}

DeltaSamples == (1..MaxDelta) \cup {BigDelta}

\* The delta lists of a member list: a first delta may be 0, later ones
\* are positive (member indices increase strictly within a list).
DeltaLists ==
    {<<>>} \cup {<<d>> \o rest : d \in {0} \cup DeltaSamples,
                                 rest \in SeqsUpTo(DeltaSamples, MaxMembers - 1)}

\* The members of list number list_no (1 static fields, 2 instance fields,
\* 3 direct methods, 4 virtual methods) with the given deltas: every member
\* gets flags of its own; some methods have code (a single return-void).
Members(deltas, list_no) ==
    [k \in 1..Len(deltas) |->
        [delta |-> deltas[k], flags |-> 8 * list_no + k,
         has_code |-> list_no >= 3 /\ (k + list_no) % 2 = 1, insns |-> <<14>>]]

\* A class with no section at all.
BaseClass ==
    [has_if |-> FALSE, ifaces |-> <<>>,
     has_data |-> FALSE, sf |-> <<>>, inf |-> <<>>, dm |-> <<>>, vm |-> <<>>,
     has_ann |-> FALSE, has_cls_set |-> FALSE, cls_set |-> <<>>,
     fann |-> <<>>, mann |-> <<>>, pann |-> <<>>]

WithData(c, sf, inf, dm, vm) ==
    [c EXCEPT !.has_data = TRUE, !.sf = Members(sf, 1), !.inf = Members(inf, 2),
              !.dm = Members(dm, 3), !.vm = Members(vm, 4)]

\* Classes whose field lists, or whose method lists, run over the delta lists.
MemberClasses ==
    {WithData(BaseClass, a, b, <<0, BigDelta>>, <<3>>) : a \in DeltaLists, b \in DeltaLists}
    \cup {WithData(BaseClass, <<2, 1>>, <<1>>, a, b) : a \in DeltaLists, b \in DeltaLists}

\* Three annotations: one with a plain element, one with a nested
\* annotation, one with an array nesting an array.
PlainAnnotation == [vis |-> 1, kids |-> <<Leaf(kEncodedString, <<63>>)>>]

NestedAnnotation == [vis |-> 0, kids |-> <<AnnotationValue(<<NullValue>>)>>]

ArrayAnnotation ==
    [vis |-> 2, kids |-> <<ArrayValue(<<BooleanValue(1), ArrayValue(<<>>)>>)>>]

AnnotationSamples == {PlainAnnotation, NestedAnnotation, ArrayAnnotation}

SetsUpTo(n) == SeqsUpTo(AnnotationSamples, n)

MemberItem(idx, set) == [idx |-> idx, set |-> set]

ParameterItem(idx, sets) == [idx |-> idx, sets |-> sets]

RefSets == {[has |-> FALSE, set |-> <<>>]} \cup {[has |-> TRUE, set |-> set] : set \in SetsUpTo(1)}

\* All sections present, each with fixed contents.
FullClass ==
    [WithData(BaseClass, <<2, 1>>, <<1>>, <<0, BigDelta>>, <<3>>) EXCEPT
        !.has_if = TRUE, !.ifaces = <<7, 9>>,
        !.has_ann = TRUE, !.has_cls_set = TRUE, !.cls_set = <<PlainAnnotation>>,
        !.fann = <<MemberItem(2, <<NestedAnnotation>>)>>,
        !.mann = <<MemberItem(0, <<PlainAnnotation, ArrayAnnotation>>)>>,
        !.pann = <<ParameterItem(3, <<[has |-> TRUE, set |-> <<PlainAnnotation>>],
                                     [has |-> FALSE, set |-> <<>>]>>)>>]

\* Classes with a directory: the class set, the field items, the method
\* items or the parameter items run over the enumerated sets.
AnnotationClasses ==
    LET D == [BaseClass EXCEPT !.has_ann = TRUE]
    IN {[D EXCEPT !.has_cls_set = TRUE, !.cls_set = set] : set \in SetsUpTo(MaxSetSize)}
       \cup {[D EXCEPT !.fann = <<MemberItem(3, a), MemberItem(5, b)>>] :
                a \in SetsUpTo(1), b \in SetsUpTo(1)}
       \cup {[D EXCEPT !.mann = <<MemberItem(4, a), MemberItem(6, b)>>,
                       !.fann = <<MemberItem(3, <<PlainAnnotation>>)>>] :
                a \in SetsUpTo(1), b \in SetsUpTo(1)}
       \cup {[D EXCEPT !.pann = <<ParameterItem(4, sets)>>] : sets \in SeqsUpTo(RefSets, MaxParams)}
       \cup {[FullClass EXCEPT !.has_cls_set = b] : b \in BOOLEAN}

\* Every combination of present and absent sections.
SectionClasses ==
    {[FullClass EXCEPT !.has_if = i, !.has_data = d, !.has_ann = a] :
        i \in BOOLEAN, d \in BOOLEAN, a \in BOOLEAN}

\* The classes multi-class inputs are made of.
SmallClasses ==
    {BaseClass,
     FullClass,
     [FullClass EXCEPT !.has_ann = FALSE],
     [FullClass EXCEPT !.has_data = FALSE, !.has_if = FALSE]}

\* Class c as the p-th class of a file: its member and annotated indices
\* moved up, so that the classes of a file define different members.
ShiftFirst(members, shift) ==
    [k \in 1..Len(members) |->
        IF k = 1 THEN [members[k] EXCEPT !.delta = @ + shift] ELSE members[k]]

ShiftItems(items, shift) ==
    [k \in 1..Len(items) |-> [items[k] EXCEPT !.idx = @ + shift]]

Rebase(c, p) ==
    LET shift == 16 * (p - 1)
    IN [c EXCEPT !.sf = ShiftFirst(@, shift), !.inf = ShiftFirst(@, shift),
                 !.dm = ShiftFirst(@, shift), !.vm = ShiftFirst(@, shift),
                 !.fann = ShiftItems(@, shift), !.mann = ShiftItems(@, shift),
                 !.pann = ShiftItems(@, shift)]

DexInputs ==
    {<<>>}
    \cup {<<c>> : c \in MemberClasses \cup AnnotationClasses \cup SectionClasses}
    \cup UNION {{[p \in 1..n |-> Rebase(cs[p], p)] : cs \in [1..n -> SmallClasses]} :
                n \in 2..MaxClasses}

(***************************************************************************)
(* The inputs of the bytecode scan: a method body is described as a        *)
(* sequence of items, each an instruction or a pseudo-instruction payload  *)
(* with its code units.                                                    *)
(***************************************************************************)
\* The unit that fills the data of a payload and what follows a body: it
\* reads as a const-string, so decoding it would show in the results.
FillUnit == kOpcodeConstString

\* An instruction: its opcode unit (with some register byte above the
\* opcode, none for a no-op), then its operand units.
Inst(op, operands) ==
    [kind |-> "inst", op |-> op,
     units |-> <<op + (IF op = 0 THEN 0 ELSE 256 * 33)>> \o operands]

OperandsOf(op) == [k \in 1..(OpcodeLen(op) - 1) |-> 40 + k]

Fill(n) == [k \in 1..n |-> FillUnit]

\* packed-switch-payload: ident, size, first_key (2 units), size targets of
\* 2 units.
PackedSwitchPayload(N) ==
    [kind |-> "packed", op |-> 0, units |-> <<256, N>> \o Fill(2) \o Fill(2 * N)]

\* sparse-switch-payload: ident, size, size keys and size targets of 2 units.
SparseSwitchPayload(N) ==
    [kind |-> "sparse", op |-> 0, units |-> <<512, N>> \o Fill(2 * N) \o Fill(2 * N)]

\* fill-array-data-payload: ident, element_width, size (2 units), then
\* size * element_width bytes of data, padded to a whole unit.
FillArrayDataPayload(w, n) ==
    [kind |-> "fill", op |-> 0, units |-> <<768, w, n, 0>> \o Fill((n * w + 1) \div 2)]

PayloadItems ==
    {PackedSwitchPayload(N) : N \in 0..MaxEntries}
    \cup {SparseSwitchPayload(N) : N \in 0..MaxEntries}
    \cup {FillArrayDataPayload(w, n) : w \in {1, 2, 4, 8}, n \in 0..MaxEntries}

\* A payload whose last unit lies past the end of the code: the header is
\* whole and declares more data than the body holds.
Truncated(pl) == [pl EXCEPT !.units = SubSeq(@, 1, Len(@) - 1)]

OverrunPayloads == {Truncated(pl) : pl \in {x \in PayloadItems : Len(x.units) > 4}}

\* An instruction or a payload of which only the first n units lie in the
\* code.
CutOff(item, n) == [item EXCEPT !.units = SubSeq(@, 1, n)]

\* Payload headers with large counts (the largest a unit holds; a size
\* whose product with the width wraps at 2^32; 0x1fffffff elements of
\* width 8), and no data.
ExtremePayloads ==
    {[kind |-> "packed", op |-> 0, units |-> <<256, 65535>>],
     [kind |-> "sparse", op |-> 0, units |-> <<512, 65535>>],
     [kind |-> "fill", op |-> 0, units |-> <<768, 65535, 2, 1>>],
     [kind |-> "fill", op |-> 0, units |-> <<768, 0, 65535, 65535>>],
     [kind |-> "fill", op |-> 0, units |-> <<768, 8, 65535, 8191>>]}

ConstString42 == Inst(kOpcodeConstString, <<42>>)

Invoke5 == Inst(kOpcodeInvokeStart, <<5, 0>>)

SequenceItems ==
    {ConstString42, Inst(kOpcodeConstStringJumbo, <<7, 1>>), Inst(kOpcodeIGetStart, <<3>>),
     Inst(kOpcodeSPutEnd, <<4>>), Invoke5, Inst(14, <<>>),
     PackedSwitchPayload(1), FillArrayDataPayload(1, 1)}

\* Bodies of one instruction of every opcode; bodies of up to MaxItems items;
\* every payload alone and between two instructions.
ScanInputs ==
    {<<Inst(op, OperandsOf(op))>> : op \in 0..255}
    \cup SeqsUpTo(SequenceItems, MaxItems)
    \cup {<<pl>> : pl \in PayloadItems}
    \cup {<<ConstString42, pl, Invoke5>> : pl \in PayloadItems}
    \cup {<<ConstString42, pl>> : pl \in OverrunPayloads}

\* Bodies of any content: those of ScanInputs, bodies whose last
\* instruction or payload is cut off by the end of the code, and bodies
\* with a payload header of extreme counts.
AnyInputs ==
    ScanInputs
    \cup {<<Invoke5, CutOff(c[1], c[2])>> :
              c \in {y \in (SequenceItems \cup PayloadItems) \X (1..3) :
                         y[2] < Len(y[1].units)}}
    \cup {<<x>> : x \in ExtremePayloads}
    \cup {<<ConstString42, x, Invoke5>> : x \in ExtremePayloads}

\* The code units of a body, and what follows them in the buffer.
BodyUnits(items) == Flatten([k \in 1..Len(items) |-> items[k].units])

AfterBody == Fill(4)

(***************************************************************************)
(* The sessions visitClass is run on.                                      *)
(***************************************************************************)
MaxVisits == 2

ReturnVoid == Inst(14, <<>>)

FieldOf(delta, flags) == [delta |-> delta, flags |-> flags, has_code |-> FALSE, insns |-> <<>>]

AbstractMethod(delta, flags) ==
    [delta |-> delta, flags |-> flags, has_code |-> FALSE, insns |-> <<>>]

MethodOf(delta, flags, items) ==
    [delta |-> delta, flags |-> flags, has_code |-> TRUE, insns |-> BodyUnits(items)]

\* The bodies of the three methods with code.
DirectBody == <<ConstString42, Invoke5, ReturnVoid>>

SwitchBody ==
    <<ConstString42, PackedSwitchPayload(1), Inst(kOpcodeIGetStart, <<3>>), ReturnVoid>>

PutBody == <<Inst(kOpcodeSPutEnd, <<4>>), ReturnVoid>>

\* Fields 0, 1 (static) and 2 (instance); methods 0 (direct), 1 (virtual,
\* no code) and 2 (virtual).
FullVisitClass ==
    [BaseClass EXCEPT !.has_data = TRUE,
                      !.sf = <<FieldOf(0, 1), FieldOf(1, 2)>>,
                      !.inf = <<FieldOf(2, 3)>>,
                      !.dm = <<MethodOf(0, 4, DirectBody)>>,
                      !.vm = <<AbstractMethod(1, 5), MethodOf(1, 6, SwitchBody)>>]

\* No static field and no direct method: fields 5, 6 (instance), method 5
\* (virtual).
SparseVisitClass ==
    [BaseClass EXCEPT !.has_data = TRUE,
                      !.inf = <<FieldOf(5, 7), FieldOf(1, 8)>>,
                      !.vm = <<MethodOf(5, 9, PutBody)>>]

\* The same two classes with an annotation item for each of their members:
\* openDex then leaves an entry for every member in the three maps.
AnnotatedFullClass ==
    [FullVisitClass EXCEPT
        !.has_ann = TRUE,
        !.fann = <<MemberItem(0, <<PlainAnnotation>>), MemberItem(1, <<>>),
                   MemberItem(2, <<NestedAnnotation>>)>>,
        !.mann = <<MemberItem(0, <<>>), MemberItem(1, <<PlainAnnotation>>),
                   MemberItem(2, <<>>)>>,
        !.pann = <<ParameterItem(0, <<>>),
                   ParameterItem(1, <<[has |-> TRUE, set |-> <<PlainAnnotation>>]>>),
                   ParameterItem(2, <<>>)>>]

AnnotatedSparseClass ==
    [SparseVisitClass EXCEPT
        !.has_ann = TRUE,
        !.fann = <<MemberItem(5, <<>>), MemberItem(6, <<PlainAnnotation>>)>>,
        !.mann = <<MemberItem(5, <<PlainAnnotation>>)>>,
        !.pann = <<ParameterItem(5, <<>>)>>]

VisitClassSamples == {AnnotatedFullClass, AnnotatedSparseClass, BaseClass}

\* Up to MaxClasses different classes, in any order, opened with their
\* annotations; and the two classes with members alone, opened without.
VisitInputs ==
    {[classes |-> cs, include |-> TRUE] :
        cs \in {x \in SeqsUpTo(VisitClassSamples, MaxClasses) :
                   /\ Len(x) >= 1
                   /\ \A a, b \in 1..Len(x) : a # b => x[a] # x[b]}}
    \cup {[classes |-> <<c>>, include |-> FALSE] : c \in {FullVisitClass, SparseVisitClass}}

(***************************************************************************)
(* The sessions of a process: openDex, closeDex and visitClass as their    *)
(* callers see them.  A DexParser object is known by its address; the      *)
(* allocator may hand out again an address that was released.              *)
(***************************************************************************)
MaxSessions == 2

Addresses == 1..MaxSessions

\* What the ByteBuffer handed to openDex is: not a direct buffer, a direct
\* buffer without address, a compact dex file, a standard dex file.
BufferKinds == {"indirect", "no_address", "compact", "standard"}

NoException == "none"

IOException == "java/io/IOException"

(***************************************************************************)
(* The ElfImage cache: three entries, each a unique_ptr with its mutex,    *)
(* used by the threads of the process.  An ElfImage is known by its        *)
(* address.                                                                *)
(***************************************************************************)
MaxCallers == 2
MaxCalls == 3

Callers == 1..MaxCallers

\* The entries in the order ClearCache(image) looks at them.
Libraries == <<"art", "binder", "linker">>

\* At most one ElfImage per entry is alive at a time.
ImageAddresses == 1..Len(Libraries)

LibrarySet == {Libraries[k] : k \in 1..Len(Libraries)}

(***************************************************************************)
(* The hook bridge: hooked_methods maps a method to its HookItem, whose    *)
(* backup is an atomic jobject: nullptr (0), FAILED, or the handle of the  *)
(* original method.  The handle lsplant::Hook gives for target m is m.     *)
(***************************************************************************)
MaxHookCalls == 3
MaxTrace == 8
MaxBridgeCalls == 2

\* Two target methods (jmethodID).
Targets == {1, 2}

\* The priorities (jint) a caller of hookMethod gives.
Priorities == {0, 50}

\* reinterpret_cast<jobject>(std::numeric_limits<uintptr_t>::max())
FAILED == -1

(***************************************************************************)
(* State.                                                                  *)
(***************************************************************************)
VARIABLES
    pc,                     \* where the program is
    desc,                   \* the input the buffer was written from (fixed)
    image,                  \* the byte buffer handed to the parser (fixed)
    cursor,                 \* ParseValue's cursor *value
    res,                    \* the Value returned by ParseValue
    annotation_list,        \* the annotation pool
    array_list,             \* the array pool
    log,                    \* history of pool references and insertions
    classes,                \* dex.ClassDefs() (fixed)
    include_annotations,    \* args[1] of openDex (fixed)
    i,                      \* openDex's class loop index
    class_data,             \* dex.class_data
    field_annotations,      \* dex.field_annotations
    method_annotations,     \* dex.method_annotations
    parameter_annotations,  \* dex.parameter_annotations
    insns,                  \* the code units from code->insns on (fixed)
    insns_size,             \* code->insns_size (fixed)
    scan,                   \* the state of the bytecode scan
    decoded_at,             \* history: the unit indices decoded as instructions
    body,                   \* the MethodBody the scan fills
    method_bodies,          \* dex.method_bodies
    member_visitor,         \* what visit_class returned for classes[i]
    member_pos,             \* visitClass: the member list and the index j in it
    calls,                  \* the number of visitClass calls made
    visit_log,              \* history: the callbacks made for classes[i]
    class_log,              \* history: visit_class and class-level stop calls
    scans,                  \* history: method index -> scans of its body
    sessions,               \* the addresses of the allocated DexParser objects
    cookie_slot,            \* args[0] of the caller of openDex
    handed,                 \* history: the addresses written to args[0]
    pool_storage,           \* address -> storage behind the exported ByteBuffers
    last_call,              \* history: the last JNI call and how it ended
    fault,                  \* undefined behaviour has ended the process
    g_image,                \* g_art_image, g_binder_image, g_linker_image
    g_mutex,                \* g_art_mutex, ...: 0, or the thread that holds it
    elf_images,             \* address -> "free", or the ElfImage there is "valid"/"invalid"
    caller,                 \* thread -> the cache call it is in, or made last
    cache_log,              \* history: calls begun, ClearCache called, ElfImages loaded
    hooked_methods,         \* the methods that have a HookItem
    backup,                 \* method -> HookItem::backup
    callbacks,              \* method -> entries of each priority in legacy_callbacks, modern_callbacks
    hook_call,              \* thread -> the bridge call it is in, or made last
    hook_log                \* history: calls begun, lsplant::Hook calls per method

vars ==
    <<pc, desc, image, cursor, res, annotation_list, array_list, log, classes,
      include_annotations, i, class_data, field_annotations, method_annotations,
      parameter_annotations, insns, insns_size, scan, decoded_at, body,
      method_bodies, member_visitor, member_pos, calls, visit_log, class_log, scans,
      sessions, cookie_slot, handed, pool_storage, last_call, fault,
      g_image, g_mutex, elf_images, caller, cache_log,
      hooked_methods, backup, callbacks, hook_call, hook_log>>

\* The session state openDex fills.
openVars ==
    <<classes, include_annotations, i, class_data, field_annotations,
      method_annotations, parameter_annotations>>

\* The state of the bytecode scan.
scanVars == <<insns, insns_size, scan, decoded_at, body>>

\* No scan is under way.
NoScan ==
    /\ insns = <<>>
    /\ insns_size = 0
    /\ scan = ScanStart
    /\ decoded_at = <<>>
    /\ body = EmptyMethodBody

\* The state of visitClass.
visitVars ==
    <<method_bodies, member_visitor, member_pos, calls, visit_log, class_log, scans>>

\* No visit has been made.
NoVisit ==
    /\ method_bodies = EmptyMap
    /\ member_visitor = NoVisitor
    /\ member_pos = LoopsLeft
    /\ calls = 0
    /\ visit_log = <<>>
    /\ class_log = <<>>
    /\ scans = EmptyMap

\* The sessions of the process and the handles its callers hold.
sessionVars == <<sessions, cookie_slot, handed, pool_storage, last_call, fault>>

NoCall ==
    [op |-> "none", buffer |-> "none", cookie |-> 0, released |-> FALSE, ret |-> "void",
     exception |-> "none", visited |-> FALSE]

\* No session has been opened through the bridge.
NoSession ==
    /\ sessions = {}
    /\ cookie_slot = 0
    /\ handed = {}
    /\ pool_storage = [a \in Addresses |-> "none"]
    /\ last_call = NoCall
    /\ fault = FALSE

\* The state of the library outside the decoder and the traversal.
\* The ElfImage cache and the calls under way on it.
cacheVars == <<g_image, g_mutex, elf_images, caller, cache_log>>

\* A thread that is in no call; the fields are those of the call it made
\* last.
NotCalling ==
    [op |-> "none", lib |-> "none", image_to_clear |-> 0, at |-> 0, pc |-> "done", ret |-> 0,
     found |-> FALSE]

NoCache ==
    /\ g_image = [l \in LibrarySet |-> 0]
    /\ g_mutex = [l \in LibrarySet |-> 0]
    /\ elf_images = [a \in ImageAddresses |-> "free"]
    /\ caller = [t \in Callers |-> NotCalling]
    /\ cache_log = [calls |-> 0, cleared |-> FALSE, loaded |-> [l \in LibrarySet |-> 0]]

\* The hook bridge and the calls under way on it.
hookVars == <<hooked_methods, backup, callbacks, hook_call, hook_log>>

\* A thread that is in no bridge call; the fields are those of the call it
\* made last (the callback arguments of hookMethod end with the call).
NotHooking ==
    [op |-> "none", target |-> 0, useModernApi |-> FALSE, priority |-> 0, newBackup |-> 0,
     pc |-> "done", ret |-> "none", exception |-> "none"]

NoItems ==
    /\ backup = [m \in Targets |-> 0]
    /\ callbacks = [m \in Targets |-> [legacy |-> [p \in Priorities |-> 0],
                                       modern |-> [p \in Priorities |-> 0]]]
    /\ hook_call = [t \in Callers |-> NotHooking]
    /\ hook_log = [calls |-> 0, hooks |-> [m \in Targets |-> 0]]

NoHook == hooked_methods = {} /\ NoItems

\* The state of the library outside the decoder and the traversal.
nativeVars == <<sessionVars, cacheVars, hookVars>>

NativeIdle == NoSession /\ NoCache /\ NoHook

(***************************************************************************)
(* SpecValue: one encoded_value is decoded from the start of the buffer.   *)
(***************************************************************************)
InitValue ==
    /\ desc \in ValueInputs
    /\ image = EncodeValue(desc) \o Trailer
    /\ pc = "value"
    /\ cursor = 1
    /\ res = <<>>
    /\ annotation_list = <<>>
    /\ array_list = <<>>
    /\ log = <<>>
    /\ classes = <<>>
    /\ include_annotations = FALSE
    /\ i = 0
    /\ class_data = <<>>
    /\ field_annotations = EmptyMap
    /\ method_annotations = EmptyMap
    /\ parameter_annotations = EmptyMap
    /\ NoScan
    /\ NoVisit
    /\ NativeIdle

DecodeValue ==
    /\ pc = "value"
    /\ LET r == ParseValue(image,
                           [pos |-> cursor, annotation_list |-> annotation_list,
                            array_list |-> array_list, log |-> log])
       IN /\ res' = r.res
          /\ cursor' = r.st.pos
          /\ annotation_list' = r.st.annotation_list
          /\ array_list' = r.st.array_list
          /\ log' = r.st.log
    /\ pc' = "value_done"
    /\ UNCHANGED <<desc, image>>
    /\ UNCHANGED openVars
    /\ UNCHANGED scanVars
    /\ UNCHANGED nativeVars
    /\ UNCHANGED visitVars

NextValue == DecodeValue

SpecValue == InitValue /\ [][NextValue]_vars

(***************************************************************************)
(* Spec: openDex on a buffer of class definitions.                         *)
(***************************************************************************)
Init ==
    /\ \E cs \in DexInputs, include \in BOOLEAN :
          \E W \in {WriteDex(cs)} :
              /\ desc = [classes |-> cs, include |-> include]
              /\ image = W.image
              /\ classes = W.classes
              /\ include_annotations = include
    /\ pc = "open"
    /\ cursor = 0
    /\ res = <<>>
    /\ annotation_list = <<>>
    /\ array_list = <<>>
    /\ log = <<>>
    /\ i = 0
    /\ class_data = <<>>
    /\ field_annotations = EmptyMap
    /\ method_annotations = EmptyMap
    /\ parameter_annotations = EmptyMap
    /\ NoScan
    /\ NoVisit
    /\ NativeIdle

\* openDex up to the class loop: dex.class_data.resize(classes.size()) and
\* the two empty pools.
OpenDex ==
    /\ pc = "open"
    /\ class_data' = [k \in 1..Len(classes) |-> EmptyClassData]
    /\ annotation_list' = <<>>
    /\ array_list' = <<>>
    /\ i' = 0
    /\ pc' = "classes"
    /\ UNCHANGED <<desc, image, cursor, res, log, classes, include_annotations,
                   field_annotations, method_annotations, parameter_annotations>>
    /\ UNCHANGED scanVars
    /\ UNCHANGED nativeVars
    /\ UNCHANGED visitVars

\* One iteration of the class loop, for classes[i].
DecodeClass ==
    /\ pc = "classes"
    /\ i < Len(classes)
    /\ \E S \in {DecodeClassDef(image, classes[i + 1], include_annotations,
                      [class_data |-> class_data[i + 1],
                       st |-> [pos |-> 0, annotation_list |-> annotation_list,
                               array_list |-> array_list, log |-> log],
                       field_annotations |-> field_annotations,
                       method_annotations |-> method_annotations,
                       parameter_annotations |-> parameter_annotations])} :
          /\ class_data' = [class_data EXCEPT ![i + 1] = S.class_data]
          /\ annotation_list' = S.st.annotation_list
          /\ array_list' = S.st.array_list
          /\ log' = S.st.log
          /\ field_annotations' = S.field_annotations
          /\ method_annotations' = S.method_annotations
          /\ parameter_annotations' = S.parameter_annotations
    /\ i' = i + 1
    /\ UNCHANGED <<pc, desc, image, cursor, res, classes, include_annotations>>
    /\ UNCHANGED scanVars
    /\ UNCHANGED nativeVars
    /\ UNCHANGED visitVars

\* The class loop has ended and openDex returns.
OpenReturn ==
    /\ pc = "classes"
    /\ i = Len(classes)
    /\ pc' = "opened"
    /\ UNCHANGED <<desc, image, cursor, res, annotation_list, array_list, log>>
    /\ UNCHANGED openVars
    /\ UNCHANGED scanVars
    /\ UNCHANGED nativeVars
    /\ UNCHANGED visitVars

Next == OpenDex \/ DecodeClass \/ OpenReturn

Spec == Init /\ [][Next]_vars

(***************************************************************************)
(* SpecScan: the bytecode scan of one method body, one loop iteration at a *)
(* time.                                                                   *)
(***************************************************************************)
ScanOf(inputs, builds) ==
    /\ desc \in inputs
    /\ insns = BodyUnits(desc) \o AfterBody
    /\ insns_size = Len(BodyUnits(desc))
    /\ scan \in {[ScanStart EXCEPT !.kIs64Bit = is64] : is64 \in builds}
    /\ decoded_at = <<>>
    /\ body = EmptyMethodBody
    /\ pc = "scan"
    /\ image = <<>>
    /\ cursor = 0
    /\ res = <<>>
    /\ annotation_list = <<>>
    /\ array_list = <<>>
    /\ log = <<>>
    /\ classes = <<>>
    /\ include_annotations = FALSE
    /\ i = 0
    /\ class_data = <<>>
    /\ field_annotations = EmptyMap
    /\ method_annotations = EmptyMap
    /\ parameter_annotations = EmptyMap
    /\ NoVisit
    /\ NativeIdle

\* One iteration of the loop (MaxTrace bounds the iterations followed).
ScanInstruction ==
    /\ pc = "scan"
    /\ scan.inst < insns_size
    /\ Len(scan.opcodes) < MaxTrace
    /\ scan' = ScanStep(insns, scan)
    /\ decoded_at' = Append(decoded_at, scan.inst)
    /\ UNCHANGED <<pc, desc, image, cursor, res, annotation_list, array_list, log,
                   insns, insns_size, body>>
    /\ UNCHANGED openVars
    /\ UNCHANGED visitVars
    /\ UNCHANGED nativeVars

\* The loop has ended: the results are stored in the body.
ScanEnd ==
    /\ pc = "scan"
    /\ scan.inst >= insns_size
    /\ body' = LoadBody(scan)
    /\ pc' = "scanned"
    /\ UNCHANGED <<desc, image, cursor, res, annotation_list, array_list, log,
                   insns, insns_size, scan, decoded_at>>
    /\ UNCHANGED openVars
    /\ UNCHANGED visitVars
    /\ UNCHANGED nativeVars

NextScan == ScanInstruction \/ ScanEnd

InitScan == ScanOf(ScanInputs, {TRUE})

SpecScan == InitScan /\ [][NextScan]_vars

\* The scan of a body of any content, in a build of either pointer width.
InitAny == ScanOf(AnyInputs, BOOLEAN)

SpecAny == InitAny /\ [][NextScan]_vars

(***************************************************************************)
(* SpecVisit: visitClass is called, up to MaxVisits times, on a session    *)
(* that openDex has returned; the visitor answers as it likes.             *)
(***************************************************************************)
\* The session before the class loop of openDex, and the loop as a whole.
NewSession ==
    [class_data |-> <<>>,
     st |-> [pos |-> 0, annotation_list |-> <<>>, array_list |-> <<>>, log |-> <<>>],
     field_annotations |-> EmptyMap, method_annotations |-> EmptyMap,
     parameter_annotations |-> EmptyMap]

ClassInput(T) == [T EXCEPT !.class_data = EmptyClassData]

StoreClass(T, S) == [S EXCEPT !.class_data = Append(T.class_data, S.class_data)]

RECURSIVE OpenClasses(_, _, _, _, _)
OpenClasses(buf, class_defs, include, T, k) ==
    IF k > Len(class_defs) THEN T
    ELSE OpenClasses(buf, class_defs, include,
             StoreClass(T, DecodeClassDef(buf, class_defs[k], include, ClassInput(T))),
             k + 1)

InitVisit ==
    /\ desc \in VisitInputs
    /\ \E W \in {WriteDex(desc.classes)} :
          \E T \in {OpenClasses(W.image, W.classes, desc.include, NewSession, 1)} :
              /\ image = W.image
              /\ classes = W.classes
              /\ i = Len(W.classes)
              /\ class_data = T.class_data
              /\ annotation_list = T.st.annotation_list
              /\ array_list = T.st.array_list
              /\ log = T.st.log
              /\ field_annotations = T.field_annotations
              /\ method_annotations = T.method_annotations
              /\ parameter_annotations = T.parameter_annotations
    /\ include_annotations = desc.include
    /\ pc = "opened"
    /\ cursor = 0
    /\ res = <<>>
    /\ NoScan
    /\ NoVisit
    /\ NativeIdle

\* visitClass is entered with the cookie of the session.
VisitCall ==
    /\ pc \in {"opened", "returned"}
    /\ calls < MaxVisits
    /\ calls' = calls + 1
    /\ i' = 0
    /\ pc' = "class"
    /\ member_visitor' = NoVisitor
    /\ member_pos' = LoopsLeft
    /\ visit_log' = <<>>
    /\ class_log' = <<>>
    /\ UNCHANGED <<desc, image, cursor, res, annotation_list, array_list, log, classes,
                   include_annotations, class_data, field_annotations,
                   method_annotations, parameter_annotations, method_bodies, scans>>
    /\ UNCHANGED scanVars
    /\ UNCHANGED nativeVars

\* The head of the class loop for classes[i]: the visit_class callback and
\* the tests that lead to the first member callback or to the stop query.
VisitClass ==
    /\ pc = "class"
    /\ i < Len(classes)
    /\ \E visitor \in Visitors :
          /\ member_visitor' = visitor
          /\ \E P \in {FieldPhase(class_data[i + 1], visitor)} :
                /\ pc' = P.pc
                /\ member_pos' = P.pos
    /\ visit_log' = <<ClassEvent(i)>>
    /\ class_log' = Append(class_log, ClassEvent(i))
    /\ UNCHANGED <<desc, image, cursor, res, annotation_list, array_list, log, classes,
                   include_annotations, i, class_data, field_annotations,
                   method_annotations, parameter_annotations, method_bodies, calls,
                   scans>>
    /\ UNCHANGED scanVars
    /\ UNCHANGED nativeVars

\* One iteration of the inner field loop: the visit_field callback, the
\* stop query, and the loop tests up to the next callback.
VisitField ==
    /\ pc = "fields"
    /\ \E stopped \in BOOLEAN :
          \E fields \in {FieldLists(class_data[i + 1])[member_pos.list]} :
              /\ field_annotations' = Touch(field_annotations, fields.idx[member_pos.j + 1])
              /\ visit_log' =
                     visit_log
                     \o <<FieldEvent(fields.idx[member_pos.j + 1],
                                     fields.flags[member_pos.j + 1],
                                     MapGet(field_annotations, fields.idx[member_pos.j + 1])),
                          MemberStopEvent(stopped)>>
              /\ \E P \in {AtMember("fields",
                                AfterField(FieldLists(class_data[i + 1]), member_pos.list,
                                           member_pos.j, stopped),
                                MethodPhase(class_data[i + 1], member_visitor))} :
                    /\ pc' = P.pc
                    /\ member_pos' = P.pos
    /\ UNCHANGED <<desc, image, cursor, res, annotation_list, array_list, log, classes,
                   include_annotations, i, class_data, method_annotations,
                   parameter_annotations, method_bodies, member_visitor, calls,
                   class_log, scans>>
    /\ UNCHANGED scanVars
    /\ UNCHANGED nativeVars

\* The method at position pos of the method lists.
MethodAt(lists, pos) ==
    [idx |-> lists[pos.list].idx[pos.j + 1], flags |-> lists[pos.list].flags[pos.j + 1],
     code |-> lists[pos.list].code[pos.j + 1]]

\* The number of scans of the body of method_idx, one more if L was scanned.
CountScan(counts, method_idx, L) ==
    [x \in (DOMAIN counts) \cup {method_idx} |->
        (IF x \in DOMAIN counts THEN counts[x] ELSE 0)
        + (IF x = method_idx /\ L.scanned THEN 1 ELSE 0)]

AnyBodyWithCode(body_visitor, code) == code # NullPtr

\* `if (body_visitor && code != nullptr)`
WantsBody(body_visitor, code) == body_visitor /\ code # NullPtr

\* One iteration of the inner method loop: the visit_method callback, the
\* scan and the visit_method_body callback if a body visitor was returned
\* and the method has code, the stop query, and the loop tests up to the
\* next callback.
VisitMethod ==
    /\ pc = "methods"
    /\ \E body_visitor \in BOOLEAN, stopped \in BOOLEAN :
          \E m \in {MethodAt(MethodLists(class_data[i + 1]), member_pos)} :
              /\ method_annotations' = Touch(method_annotations, m.idx)
              /\ parameter_annotations' = Touch(parameter_annotations, m.idx)
              /\ IF WantsBody(body_visitor, m.code)
                 THEN \E L \in {LoadedBody(image, m.code, BodyOf(method_bodies, m.idx))} :
                        /\ method_bodies' =
                               [x \in (DOMAIN method_bodies) \cup {m.idx} |->
                                   IF x = m.idx THEN L.body ELSE method_bodies[x]]
                        /\ scans' = CountScan(scans, m.idx, L)
                        /\ visit_log' =
                               visit_log
                               \o <<MethodEvent(m.idx, m.flags, m.code # NullPtr,
                                                MapGet(method_annotations, m.idx),
                                                MapGet(parameter_annotations, m.idx),
                                                body_visitor),
                                    BodyEvent(m.idx, L), MemberStopEvent(stopped)>>
                 ELSE /\ UNCHANGED <<method_bodies, scans>>
                      /\ visit_log' =
                             visit_log
                             \o <<MethodEvent(m.idx, m.flags, m.code # NullPtr,
                                              MapGet(method_annotations, m.idx),
                                              MapGet(parameter_annotations, m.idx),
                                              body_visitor),
                                  MemberStopEvent(stopped)>>
              /\ \E P \in {AtMember("methods",
                                AfterMethod(MethodLists(class_data[i + 1]),
                                            member_pos.list, member_pos.j, stopped),
                                ClassStopPoint)} :
                    /\ pc' = P.pc
                    /\ member_pos' = P.pos
    /\ UNCHANGED <<desc, image, cursor, res, annotation_list, array_list, log, classes,
                   include_annotations, i, class_data, field_annotations,
                   member_visitor, calls, class_log>>
    /\ UNCHANGED scanVars
    /\ UNCHANGED nativeVars

ClassStopIgnored(stopped) == FALSE

\* `if (env->CallBooleanMethod(visitor, stop) == JNI_TRUE) break;`
ClassStopBreaks(stopped) == stopped

\* The end of the loop body for classes[i]: the stop query of the class
\* visitor; the loop is left, or goes on with the next class.
ClassStop ==
    /\ pc = "stop"
    /\ \E stopped \in BOOLEAN :
          /\ visit_log' = Append(visit_log, ClassStopEvent(i, stopped))
          /\ class_log' = Append(class_log, ClassStopEvent(i, stopped))
          /\ IF ClassStopBreaks(stopped)
             THEN pc' = "returned" /\ i' = i
             ELSE pc' = "class" /\ i' = i + 1
    /\ UNCHANGED <<desc, image, cursor, res, annotation_list, array_list, log, classes,
                   include_annotations, class_data, field_annotations,
                   method_annotations, parameter_annotations, method_bodies,
                   member_visitor, member_pos, calls, scans>>
    /\ UNCHANGED scanVars
    /\ UNCHANGED nativeVars

\* The class loop has ended: visitClass returns.
VisitReturn ==
    /\ pc = "class"
    /\ i >= Len(classes)
    /\ pc' = "returned"
    /\ UNCHANGED <<desc, image, cursor, res, annotation_list, array_list, log>>
    /\ UNCHANGED openVars
    /\ UNCHANGED scanVars
    /\ UNCHANGED nativeVars
    /\ UNCHANGED visitVars

NextVisit == VisitCall \/ VisitClass \/ VisitField \/ VisitMethod \/ ClassStop \/ VisitReturn

SpecVisit == InitVisit /\ [][NextVisit]_vars

(***************************************************************************)
(* SpecSession: callers open, close and visit sessions by their handles.   *)
(* Each action is one JNI call; the traversal of a live session is that of *)
(* SpecVisit and is recorded here only as having been made.                *)
(***************************************************************************)
KeepSession(allocated, dex_reader) == allocated

\* delete dex_reader
DeleteSession(allocated, dex_reader) == allocated \ {dex_reader}

\* annotation_list and array_list are variables of openDex itself: the
\* vectors the exported direct ByteBuffers point into are destroyed when
\* openDex returns.
PoolStorageAtReturn == "released"

\* How a call ended, for the history.
Ended(op, buffer, cookie, released, ret, exception, visited) ==
    [op |-> op, buffer |-> buffer, cookie |-> cookie, released |-> released, ret |-> ret,
     exception |-> exception, visited |-> visited]

InitSession ==
    /\ desc = <<>>
    /\ image = <<>>
    /\ pc = "process"
    /\ cursor = 0
    /\ res = <<>>
    /\ annotation_list = <<>>
    /\ array_list = <<>>
    /\ log = <<>>
    /\ classes = <<>>
    /\ include_annotations = FALSE
    /\ i = 0
    /\ class_data = <<>>
    /\ field_annotations = EmptyMap
    /\ method_annotations = EmptyMap
    /\ parameter_annotations = EmptyMap
    /\ NoScan
    /\ NoVisit
    /\ NativeIdle

\* openDex on a buffer of one of the four kinds; has_values: the decoded
\* pools hold a value with a non-empty byte sequence.
OpenSession ==
    /\ ~fault
    /\ \E buffer \in BufferKinds, include \in BOOLEAN, has_values \in BOOLEAN :
          IF buffer \in {"indirect", "no_address"}
          THEN /\ last_call' = Ended("open", buffer, 0, FALSE, "null", IOException, FALSE)
               /\ UNCHANGED <<sessions, cookie_slot, handed, pool_storage>>
          ELSE \E dex_reader \in Addresses \ sessions :
                  /\ cookie_slot' = dex_reader
                  /\ handed' = handed \cup {dex_reader}
                  /\ IF buffer = "compact"
                     THEN /\ sessions' = DeleteSession(sessions \cup {dex_reader}, dex_reader)
                          /\ pool_storage' = [pool_storage EXCEPT ![dex_reader] = "none"]
                          /\ last_call' = Ended("open", buffer, dex_reader, FALSE, "null",
                                                IOException, FALSE)
                     ELSE /\ sessions' = sessions \cup {dex_reader}
                          /\ pool_storage' =
                                 [pool_storage EXCEPT ![dex_reader] =
                                     IF include /\ has_values THEN PoolStorageAtReturn
                                     ELSE "none"]
                          /\ last_call' = Ended("open", buffer, dex_reader, FALSE, "out",
                                                NoException, FALSE)
    /\ UNCHANGED <<pc, desc, image, cursor, res, annotation_list, array_list, log, fault>>
    /\ UNCHANGED openVars
    /\ UNCHANGED scanVars
    /\ UNCHANGED visitVars
    /\ UNCHANGED cacheVars
    /\ UNCHANGED hookVars

\* closeDex on null or on an address some openDex has written to args[0].
\* delete on an object that is already deleted is undefined: the process
\* goes on, or ends.
CloseSession ==
    /\ ~fault
    /\ \E cookie \in {0} \cup handed :
          /\ IF cookie = 0
             THEN UNCHANGED <<sessions, pool_storage, fault>>
             ELSE IF cookie \in sessions
             THEN /\ sessions' = DeleteSession(sessions, cookie)
                  /\ UNCHANGED <<pool_storage, fault>>
             ELSE /\ fault' \in BOOLEAN
                  /\ UNCHANGED <<sessions, pool_storage>>
          /\ last_call' = Ended("close", "none", cookie, cookie # 0 /\ cookie \notin sessions,
                                "void", NoException, FALSE)
    /\ UNCHANGED <<pc, desc, image, cursor, res, annotation_list, array_list, log,
                   cookie_slot, handed>>
    /\ UNCHANGED openVars
    /\ UNCHANGED scanVars
    /\ UNCHANGED visitVars
    /\ UNCHANGED cacheVars
    /\ UNCHANGED hookVars

NoCookieIsNull(cookie) == FALSE

\* `if (cookie == 0)`
IsNullCookie(cookie) == cookie = 0

\* visitClass on null or on an address some openDex has written to args[0]:
\* `if (cookie == 0) return;`, the traversal of a live session, or the use
\* of a deleted object (undefined).
VisitSession ==
    /\ ~fault
    /\ \E cookie \in {0} \cup handed :
          /\ IF ~IsNullCookie(cookie) /\ cookie \notin sessions
             THEN fault' \in BOOLEAN
             ELSE UNCHANGED fault
          /\ last_call' = Ended("visit", "none", cookie, cookie # 0 /\ cookie \notin sessions,
                                "void", NoException,
                                ~IsNullCookie(cookie) /\ cookie \in sessions)
    /\ UNCHANGED <<pc, desc, image, cursor, res, annotation_list, array_list, log,
                   sessions, cookie_slot, handed, pool_storage>>
    /\ UNCHANGED openVars
    /\ UNCHANGED scanVars
    /\ UNCHANGED visitVars
    /\ UNCHANGED cacheVars
    /\ UNCHANGED hookVars

NextSession == OpenSession \/ CloseSession \/ VisitSession

SpecSession == InitSession /\ [][NextSession]_vars

(***************************************************************************)
(* SpecCache: the threads of the process call GetArt, GetLibBinder,        *)
(* GetLinker and ClearCache, up to MaxCalls calls in all.  A step is what  *)
(* a call does between two points at which another thread can see or       *)
(* change an entry: the first check of a Get is made without the mutex.    *)
(***************************************************************************)
IsCached(image_to_clear, cached) == cached # 0

\* image_to_clear == g_art_image.get()
IsEntry(image_to_clear, cached) == image_to_clear = cached

\* g_art_image.reset() and the like
ResetEntry(entries, lib) == [entries EXCEPT ![lib] = 0]

\* The ElfImages that the change of the entries has destroyed.
Destroyed(images, before, after) ==
    [a \in ImageAddresses |->
        IF \E l \in LibrarySet : before[l] = a /\ after[l] # a THEN "free" ELSE images[a]]

Calling(op, lib, image_to_clear, at, at_pc, ret, found) ==
    [op |-> op, lib |-> lib, image_to_clear |-> image_to_clear, at |-> at, pc |-> at_pc,
     ret |-> ret, found |-> found]

CallBegun(clear) ==
    [cache_log EXCEPT !.calls = @ + 1, !.cleared = @ \/ clear]

\* One more ElfImage of the library has loaded (what is counted is whether
\* it was one or more).
Loaded(lib, valid) ==
    [cache_log EXCEPT !.loaded[lib] = IF valid /\ @ < 2 THEN @ + 1 ELSE @]

parserVars ==
    <<pc, desc, image, cursor, res, annotation_list, array_list, log, openVars, scanVars,
      visitVars, sessionVars>>

InitCache ==
    /\ desc = <<>>
    /\ image = <<>>
    /\ pc = "process"
    /\ cursor = 0
    /\ res = <<>>
    /\ annotation_list = <<>>
    /\ array_list = <<>>
    /\ log = <<>>
    /\ classes = <<>>
    /\ include_annotations = FALSE
    /\ i = 0
    /\ class_data = <<>>
    /\ field_annotations = EmptyMap
    /\ method_annotations = EmptyMap
    /\ parameter_annotations = EmptyMap
    /\ NoScan
    /\ NoVisit
    /\ NativeIdle

\* A Get is called: `if (g_art_image)`, read without the mutex.
GetImage(t, lib) ==
    /\ caller[t].pc = "done"
    /\ cache_log.calls < MaxCalls
    /\ caller' = [caller EXCEPT ![t] =
                     Calling("get", lib, 0, 0, IF g_image[lib] # 0 THEN "return" ELSE "lock",
                             0, FALSE)]
    /\ cache_log' = CallBegun(FALSE)
    /\ UNCHANGED <<g_image, g_mutex, elf_images>>
    /\ UNCHANGED parserVars
    /\ UNCHANGED hookVars

\* `return g_art_image.get();` of the first check, read without the mutex.
GetReturn(t) ==
    /\ caller[t].pc = "return"
    /\ caller' = [caller EXCEPT ![t].ret = g_image[caller[t].lib], ![t].pc = "done"]
    /\ UNCHANGED <<g_image, g_mutex, elf_images, cache_log>>
    /\ UNCHANGED parserVars
    /\ UNCHANGED hookVars

\* The mutex is taken; when the entry is still empty an ElfImage is
\* constructed and the entry assigned.  Whether the library loads is not
\* the cache's to decide.
GetLock(t) ==
    /\ caller[t].pc = "lock"
    /\ g_mutex[caller[t].lib] = 0
    /\ g_mutex' = [g_mutex EXCEPT ![caller[t].lib] = t]
    /\ IF g_image[caller[t].lib] = 0
       THEN \E a \in {x \in ImageAddresses : elf_images[x] = "free"}, valid \in BOOLEAN :
               /\ elf_images' = [elf_images EXCEPT ![a] = IF valid THEN "valid" ELSE "invalid"]
               /\ g_image' = [g_image EXCEPT ![caller[t].lib] = a]
               /\ cache_log' = Loaded(caller[t].lib, valid)
               /\ caller' = [caller EXCEPT ![t].pc = "validate"]
       ELSE /\ caller' = [caller EXCEPT ![t].pc = "unlock"]
            /\ UNCHANGED <<g_image, elf_images, cache_log>>
    /\ UNCHANGED parserVars
    /\ UNCHANGED hookVars

\* `if (!g_art_image->IsValid()) g_art_image.reset();`
GetValidate(t) ==
    /\ caller[t].pc = "validate"
    /\ g_image' = IF elf_images[g_image[caller[t].lib]] = "valid" THEN g_image
                  ELSE ResetEntry(g_image, caller[t].lib)
    /\ elf_images' = Destroyed(elf_images, g_image, g_image')
    /\ caller' = [caller EXCEPT ![t].pc = "unlock"]
    /\ UNCHANGED <<g_mutex, cache_log>>
    /\ UNCHANGED parserVars
    /\ UNCHANGED hookVars

\* `return g_art_image.get();` and the end of the lock_guard.
GetUnlock(t) ==
    /\ caller[t].pc = "unlock"
    /\ caller' = [caller EXCEPT ![t].ret = g_image[caller[t].lib], ![t].pc = "done"]
    /\ g_mutex' = [g_mutex EXCEPT ![caller[t].lib] = 0]
    /\ UNCHANGED <<g_image, elf_images, cache_log>>
    /\ UNCHANGED parserVars
    /\ UNCHANGED hookVars

\* ClearCache(image_to_clear) is called, with null or any pointer.
ClearCache(t, image_to_clear) ==
    /\ caller[t].pc = "done"
    /\ cache_log.calls < MaxCalls
    /\ caller' = [caller EXCEPT ![t] =
                     IF image_to_clear = 0
                     THEN Calling("clear", "none", 0, 0, "done", 0, FALSE)
                     ELSE Calling("clear", "none", image_to_clear, 1, "clear", 0, FALSE)]
    /\ cache_log' = CallBegun(TRUE)
    /\ UNCHANGED <<g_image, g_mutex, elf_images>>
    /\ UNCHANGED parserVars
    /\ UNCHANGED hookVars

\* One of the three blocks of ClearCache(image_to_clear): lock, compare,
\* reset and return true, or go on to the next entry.
ClearEntry(t) ==
    /\ caller[t].pc = "clear"
    /\ g_mutex[Libraries[caller[t].at]] = 0
    /\ IF IsEntry(caller[t].image_to_clear, g_image[Libraries[caller[t].at]])
       THEN /\ g_image' = ResetEntry(g_image, Libraries[caller[t].at])
            /\ caller' = [caller EXCEPT ![t] = Calling("clear", "none", 0, 0, "done", 0, TRUE)]
       ELSE /\ UNCHANGED g_image
            /\ caller' = [caller EXCEPT ![t] =
                             IF caller[t].at < Len(Libraries)
                             THEN [@ EXCEPT !.at = @ + 1]
                             ELSE Calling("clear", "none", 0, 0, "done", 0, FALSE)]
    /\ elf_images' = Destroyed(elf_images, g_image, g_image')
    /\ UNCHANGED <<g_mutex, cache_log>>
    /\ UNCHANGED parserVars
    /\ UNCHANGED hookVars

\* ClearCache(): the three mutexes are taken, the three entries reset.
ClearAll(t) ==
    /\ caller[t].pc = "done"
    /\ cache_log.calls < MaxCalls
    /\ \A l \in LibrarySet : g_mutex[l] = 0
    /\ g_image' = [l \in LibrarySet |-> 0]
    /\ elf_images' = Destroyed(elf_images, g_image, g_image')
    /\ caller' = [caller EXCEPT ![t] = Calling("clear_all", "none", 0, 0, "done", 0, FALSE)]
    /\ cache_log' = CallBegun(TRUE)
    /\ UNCHANGED g_mutex
    /\ UNCHANGED parserVars
    /\ UNCHANGED hookVars

NextCache ==
    \E t \in Callers :
        \/ \E lib \in LibrarySet : GetImage(t, lib)
        \/ GetReturn(t)
        \/ GetLock(t)
        \/ GetValidate(t)
        \/ GetUnlock(t)
        \/ \E image_to_clear \in {0} \cup ImageAddresses : ClearCache(t, image_to_clear)
        \/ ClearEntry(t)
        \/ ClearAll(t)

SpecCache == InitCache /\ [][NextCache]_vars

(***************************************************************************)
(* HookItem.                                                               *)
(***************************************************************************)
StoreBackup(stored, newBackup) == IF newBackup # 0 THEN newBackup ELSE FAILED

\* backup.compare_exchange_strong(null, newBackup ? newBackup : FAILED)
SetBackup(stored, newBackup) ==
    IF stored = 0 THEN (IF newBackup # 0 THEN newBackup ELSE FAILED) ELSE stored

\* A variant that returns the stored value as it is.
RawBackup(stored) == stored

\* GetBackup after its wait: `bk != FAILED ? bk : nullptr`
GetBackup(stored) == IF stored # FAILED THEN stored ELSE 0

HookCalling(op, target, useModernApi, priority, newBackup, at_pc, ret, exception) ==
    [op |-> op, target |-> target, useModernApi |-> useModernApi, priority |-> priority,
     newBackup |-> newBackup, pc |-> at_pc, ret |-> ret, exception |-> exception]

\* A variant for a map with one entry per key: nothing is added under a key
\* that has an entry.
EmplaceUnique(multimap, priority) == [multimap EXCEPT ![priority] = 1]

\* multimap.emplace(priority, callback): one more entry under the priority.
Emplace(multimap, priority) == [multimap EXCEPT ![priority] = @ + 1]

HookCallBegun == [hook_log EXCEPT !.calls = @ + 1]

(***************************************************************************)
(* SpecItem: the threads of the process call SetBackup and GetBackup of    *)
(* one HookItem (that of method 1), up to MaxHookCalls calls in all.       *)
(***************************************************************************)
InitItem ==
    /\ desc = <<>>
    /\ image = <<>>
    /\ pc = "process"
    /\ cursor = 0
    /\ res = <<>>
    /\ annotation_list = <<>>
    /\ array_list = <<>>
    /\ log = <<>>
    /\ classes = <<>>
    /\ include_annotations = FALSE
    /\ i = 0
    /\ class_data = <<>>
    /\ field_annotations = EmptyMap
    /\ method_annotations = EmptyMap
    /\ parameter_annotations = EmptyMap
    /\ NoScan
    /\ NoVisit
    /\ NoSession
    /\ NoCache
    /\ hooked_methods = {1}
    /\ NoItems

\* SetBackup(newBackup): the compare-exchange, then notify_all, which wakes
\* the threads whose wait the new value ends.
ItemSetBackup(t, newBackup) ==
    /\ hook_call[t].pc = "done"
    /\ hook_log.calls < MaxHookCalls
    /\ backup' = [backup EXCEPT ![1] = SetBackup(@, newBackup)]
    /\ hook_call' = [hook_call EXCEPT ![t] =
                        HookCalling("SetBackup", 1, FALSE, 0, newBackup, "done", "void", "none")]
    /\ hook_log' = HookCallBegun
    /\ UNCHANGED <<hooked_methods, callbacks>>
    /\ UNCHANGED parserVars
    /\ UNCHANGED cacheVars

\* GetBackup is called: the thread is at backup.wait(nullptr).
ItemGetBackup(t) ==
    /\ hook_call[t].pc = "done"
    /\ hook_log.calls < MaxHookCalls
    /\ hook_call' = [hook_call EXCEPT ![t] =
                        HookCalling("GetBackup", 1, FALSE, 0, 0, "wait", "none", "none")]
    /\ hook_log' = HookCallBegun
    /\ UNCHANGED <<hooked_methods, backup, callbacks>>
    /\ UNCHANGED parserVars
    /\ UNCHANGED cacheVars

\* The wait ends once backup is not nullptr; the value is loaded and
\* returned (the call record holds the jobject returned as its numeral).
ItemLoadBackup(t) ==
    /\ hook_call[t].op = "GetBackup"
    /\ hook_call[t].pc = "wait"
    /\ backup[1] # 0
    /\ hook_call' = [hook_call EXCEPT ![t].pc = "done", ![t].ret = ToString(GetBackup(backup[1]))]
    /\ UNCHANGED <<hooked_methods, backup, callbacks, hook_log>>
    /\ UNCHANGED parserVars
    /\ UNCHANGED cacheVars

NextItem ==
    \E t \in Callers :
        \/ \E newBackup \in {0} \cup Targets : ItemSetBackup(t, newBackup)
        \/ ItemGetBackup(t)
        \/ ItemLoadBackup(t)

SpecItem == InitItem /\ [][NextItem]_vars

\* backup.wait(nullptr) returns once the value is not nullptr: SetBackup
\* ends with notify_all, and a thread that can run is run.
FairItem == SpecItem /\ \A t \in Callers : WF_vars(ItemLoadBackup(t))

(***************************************************************************)
(* SpecHook: the threads of the process call hookMethod and                *)
(* invokeOriginalMethod, up to MaxBridgeCalls calls in all.                *)
(***************************************************************************)
InitHook ==
    /\ desc = <<>>
    /\ image = <<>>
    /\ pc = "process"
    /\ cursor = 0
    /\ res = <<>>
    /\ annotation_list = <<>>
    /\ array_list = <<>>
    /\ log = <<>>
    /\ classes = <<>>
    /\ include_annotations = FALSE
    /\ i = 0
    /\ class_data = <<>>
    /\ field_annotations = EmptyMap
    /\ method_annotations = EmptyMap
    /\ parameter_annotations = EmptyMap
    /\ NoScan
    /\ NoVisit
    /\ NativeIdle

\* hookMethod is called: lazy_emplace_l finds the HookItem of the target or
\* creates it, under the map's lock.
HookMethod(t, target, useModernApi, priority) ==
    /\ hook_call[t].pc = "done"
    /\ hook_log.calls < MaxBridgeCalls
    /\ hooked_methods' = hooked_methods \cup {target}
    /\ hook_call' = [hook_call EXCEPT ![t] =
                        HookCalling("hookMethod", target, useModernApi, priority, 0,
                                    IF target \in hooked_methods THEN "wait" ELSE "hook",
                                    "none", "none")]
    /\ hook_log' = HookCallBegun
    /\ UNCHANGED <<backup, callbacks>>
    /\ UNCHANGED parserVars
    /\ UNCHANGED cacheVars

\* `if (newHook)`: lsplant::Hook gives the handle of the original method, or
\* null; the result goes to SetBackup.
HookInstall(t) ==
    /\ hook_call[t].pc = "hook"
    /\ \E newBackup \in {0, hook_call[t].target} :
          /\ backup' = [backup EXCEPT ![hook_call[t].target] = SetBackup(@, newBackup)]
          /\ hook_call' = [hook_call EXCEPT ![t].pc = "wait", ![t].newBackup = newBackup]
    /\ hook_log' = [hook_log EXCEPT !.hooks[hook_call[t].target] = @ + 1]
    /\ UNCHANGED <<hooked_methods, callbacks>>
    /\ UNCHANGED parserVars
    /\ UNCHANGED cacheVars

\* `hook_item->GetBackup()` of hookMethod and `if (!backup) return JNI_FALSE;`
HookGetBackup(t) ==
    /\ hook_call[t].op = "hookMethod"
    /\ hook_call[t].pc = "wait"
    /\ backup[hook_call[t].target] # 0
    /\ hook_call' = [hook_call EXCEPT ![t] =
                        IF GetBackup(backup[hook_call[t].target]) = 0
                        THEN [@ EXCEPT !.pc = "done", !.ret = "JNI_FALSE",
                                       !.useModernApi = FALSE, !.priority = 0]
                        ELSE [@ EXCEPT !.pc = "monitor"]]
    /\ UNCHANGED <<hooked_methods, backup, callbacks, hook_log>>
    /\ UNCHANGED parserVars
    /\ UNCHANGED cacheVars

\* Under the monitor of the backup the callback is put into
\* modern_callbacks or legacy_callbacks; JNI_TRUE.
HookCallback(t) ==
    /\ hook_call[t].pc = "monitor"
    /\ callbacks' = [callbacks EXCEPT ![hook_call[t].target] =
                        IF hook_call[t].useModernApi
                        THEN [@ EXCEPT !.modern = Emplace(@, hook_call[t].priority)]
                        ELSE [@ EXCEPT !.legacy = Emplace(@, hook_call[t].priority)]]
    /\ hook_call' = [hook_call EXCEPT ![t].pc = "done", ![t].ret = "JNI_TRUE",
                                      ![t].useModernApi = FALSE, ![t].priority = 0]
    /\ UNCHANGED <<hooked_methods, backup, hook_log>>
    /\ UNCHANGED parserVars
    /\ UNCHANGED cacheVars

\* invokeOriginalMethod is called: if_contains looks the HookItem up; with
\* none, the method itself is invoked.
InvokeOriginalMethod(t, target) ==
    /\ hook_call[t].pc = "done"
    /\ hook_log.calls < MaxBridgeCalls
    /\ hook_call' = [hook_call EXCEPT ![t] =
                        IF target \in hooked_methods
                        THEN HookCalling("invokeOriginalMethod", target, FALSE, 0, 0, "wait",
                                         "none", "none")
                        ELSE HookCalling("invokeOriginalMethod", target, FALSE, 0, 0, "done",
                                         "invoked", "none")]
    /\ hook_log' = HookCallBegun
    /\ UNCHANGED <<hooked_methods, backup, callbacks>>
    /\ UNCHANGED parserVars
    /\ UNCHANGED cacheVars

\* `hook_item->GetBackup()` of invokeOriginalMethod:
\* `if (!method_to_invoke) return nullptr;`, or the backup is invoked.
InvokeBackup(t) ==
    /\ hook_call[t].op = "invokeOriginalMethod"
    /\ hook_call[t].pc = "wait"
    /\ backup[hook_call[t].target] # 0
    /\ hook_call' = [hook_call EXCEPT ![t].pc = "done",
                                      ![t].ret = IF GetBackup(backup[hook_call[t].target]) = 0
                                                 THEN "nullptr" ELSE "invoked"]
    /\ UNCHANGED <<hooked_methods, backup, callbacks, hook_log>>
    /\ UNCHANGED parserVars
    /\ UNCHANGED cacheVars

NextHook ==
    \E t \in Callers :
        \/ \E target \in Targets, useModernApi \in BOOLEAN, priority \in Priorities :
              HookMethod(t, target, useModernApi, priority)
        \/ HookInstall(t)
        \/ HookGetBackup(t)
        \/ HookCallback(t)
        \/ \E target \in Targets : InvokeOriginalMethod(t, target)
        \/ InvokeBackup(t)

SpecHook == InitHook /\ [][NextHook]_vars

(***************************************************************************)
(* Reference readings used by the properties.                              *)
(***************************************************************************)
\* The sign extension to `width` bytes of a little-endian two's-complement
\* integer: the bytes, then copies of the sign.
SignExtension(bytes, width) ==
    [k \in 1..width |->
        IF k <= Len(bytes) THEN bytes[k]
        ELSE IF bytes[Len(bytes)] >= 128 THEN 255 ELSE 0]

\* The zero extension to `width` bytes.
ZeroExtension(bytes, width) ==
    [k \in 1..width |-> IF k <= Len(bytes) THEN bytes[k] ELSE 0]

\* The number a little-endian two's-complement byte sequence stands for.
SignedLE(bytes) ==
    IF bytes[Len(bytes)] >= 128 THEN FromLE(bytes) - Pow2(8 * Len(bytes)) ELSE FromLE(bytes)

LogEvents == {log[k] : k \in 1..Len(log)}

\* A pool reference whose index is the position of the record decoded from
\* the same bytes.
RefIsOwnRecord(e) ==
    \E s \in LogEvents :
        s.ev = "store" /\ s.pool = e.pool /\ s.at = e.at /\ s.index = e.index

\* What the description of an input file says about its p-th class, and
\* whether the class loop has been through it.
DescOf(p) == desc.classes[p]

Decoded(p) == pc \in {"classes", "opened"} /\ p <= i

\* The member indices a member list stands for: the k-th is the sum of the
\* first k deltas.
RECURSIVE SumDeltas(_, _)
SumDeltas(members, k) == IF k = 0 THEN 0 ELSE members[k].delta + SumDeltas(members, k - 1)

MemberIndices(members) == [k \in 1..Len(members) |-> SumDeltas(members, k)]

MemberFlags(members) == [k \in 1..Len(members) |-> members[k].flags]

\* The four index lists and the four flags lists of a decoded class are
\* those of the member lists sf, inf, dm, vm.
MembersAre(d, sf, inf, dm, vm) ==
    /\ d.static_fields = MemberIndices(sf)
    /\ d.static_fields_access_flags = MemberFlags(sf)
    /\ d.instance_fields = MemberIndices(inf)
    /\ d.instance_fields_access_flags = MemberFlags(inf)
    /\ d.direct_methods = MemberIndices(dm)
    /\ d.direct_methods_access_flags = MemberFlags(dm)
    /\ Len(d.direct_methods_code) = Len(dm)
    /\ d.virtual_methods = MemberIndices(vm)
    /\ d.virtual_methods_access_flags = MemberFlags(vm)
    /\ Len(d.virtual_methods_code) = Len(vm)

\* The annotation lists of a decoded class with the directory described by
\* c: one index per annotation of the class set, and one index vector per
\* field and method item, as long as the item's set.
AnnotationListsAre(d, c) ==
    /\ Len(d.annotations) = IF c.has_cls_set THEN Len(c.cls_set) ELSE 0
    /\ \A k \in 1..Len(c.fann) :
          /\ c.fann[k].idx \in DOMAIN field_annotations
          /\ Len(field_annotations[c.fann[k].idx]) = Len(c.fann[k].set)
    /\ \A k \in 1..Len(c.mann) :
          /\ c.mann[k].idx \in DOMAIN method_annotations
          /\ Len(method_annotations[c.mann[k].idx]) = Len(c.mann[k].set)
    /\ \A k \in 1..Len(c.pann) : c.pann[k].idx \in DOMAIN parameter_annotations

\* No annotation list of the class described by c has been filled in.
AnnotationListsEmpty(d, c) ==
    /\ d.annotations = <<>>
    /\ \A k \in 1..Len(c.fann) : c.fann[k].idx \notin DOMAIN field_annotations
    /\ \A k \in 1..Len(c.mann) : c.mann[k].idx \notin DOMAIN method_annotations
    /\ \A k \in 1..Len(c.pann) : c.pann[k].idx \notin DOMAIN parameter_annotations

\* The decoded class p has, section by section, what its description says.
SectionsAsDescribed(p) ==
    LET c == DescOf(p)
        d == class_data[p]
    IN /\ d.interfaces = IF c.has_if THEN c.ifaces ELSE <<>>
       /\ IF c.has_data THEN MembersAre(d, c.sf, c.inf, c.dm, c.vm)
          ELSE MembersAre(d, <<>>, <<>>, <<>>, <<>>)
       /\ IF c.has_ann /\ include_annotations THEN AnnotationListsAre(d, c)
          ELSE AnnotationListsEmpty(d, c)

\* The number of annotation-typed values in a value tree d, and in the
\* first j of the values kids: each adds one record to the annotation pool.
RECURSIVE CountAnnotationsIn(_)
RECURSIVE CountAnnotationsInKids(_, _)
CountAnnotationsIn(d) ==
    (IF d.kind = "annotation" THEN 1 ELSE 0) + CountAnnotationsInKids(d.kids, Len(d.kids))

CountAnnotationsInKids(kids, j) ==
    IF j = 0 THEN 0 ELSE CountAnnotationsIn(kids[j]) + CountAnnotationsInKids(kids, j - 1)

\* The number of pool records the first k annotations of a sequence of
\* described annotations [vis, kids] add: one each, and one per annotation
\* nested in it.
RECURSIVE PoolRecords(_, _)
PoolRecords(set, k) ==
    IF k = 0 THEN 0
    ELSE 1 + CountAnnotationsInKids(set[k].kids, Len(set[k].kids)) + PoolRecords(set, k - 1)

\* The described annotations in the order openDex meets them.
SetsOfItems(items) == Flatten([k \in 1..Len(items) |-> items[k].set])

RefSetsUpTo(sets, n) == Flatten([l \in 1..n |-> IF sets[l].has THEN sets[l].set ELSE <<>>])

ParameterSetsUpTo(pann, j) ==
    Flatten([k \in 1..j |-> RefSetsUpTo(pann[k].sets, Len(pann[k].sets))])

AnnotationsBeforeParameters(c) ==
    (IF c.has_cls_set THEN c.cls_set ELSE <<>>) \o SetsOfItems(c.fann) \o SetsOfItems(c.mann)

AnnotationsOfClass(c) ==
    IF c.has_ann
    THEN AnnotationsBeforeParameters(c) \o ParameterSetsUpTo(c.pann, Len(c.pann))
    ELSE <<>>

AnnotationsBeforeClass(p) == Flatten([q \in 1..(p - 1) |-> AnnotationsOfClass(DescOf(q))])

\* The size of the annotation pool when openDex comes to the l-th parameter
\* of the j-th parameter item of class p.
PoolSizeBefore(p, j, l) ==
    LET c == DescOf(p)
        before == AnnotationsBeforeClass(p) \o AnnotationsBeforeParameters(c)
                  \o ParameterSetsUpTo(c.pann, j - 1)
                  \o RefSetsUpTo(c.pann[j].sets, l - 1)
    IN PoolRecords(before, Len(before))

\* The indices emitted for the l-th parameter: one per annotation of its
\* set, each the size of the pool when the annotation is come to.
ParameterGroup(p, j, l) ==
    LET r == DescOf(p).pann[j].sets[l]
    IN IF r.has
       THEN [k \in 1..Len(r.set) |-> PoolSizeBefore(p, j, l) + PoolRecords(r.set, k - 1)]
       ELSE <<>>

\* The groups of the j-th parameter item, each followed by the sentinel; and
\* the same with a sentinel between successive groups only.
GroupsTerminated(p, j) ==
    Flatten([l \in 1..Len(DescOf(p).pann[j].sets) |-> ParameterGroup(p, j, l) \o <<kNoIndex>>])

GroupsSeparated(p, j) ==
    Flatten([l \in 1..Len(DescOf(p).pann[j].sets) |->
                IF l = 1 THEN ParameterGroup(p, j, l)
                ELSE <<kNoIndex>> \o ParameterGroup(p, j, l)])

\* Class p has been decoded with its annotations directory.
AnnotationsDecoded(p) == Decoded(p) /\ include_annotations /\ DescOf(p).has_ann

\* The visibilities of the pool records that a sequence of described
\* annotations gives: for each, the encoded-visibility mark of every
\* annotation nested in it, then its own visibility.
VisibilitiesOf(seq) ==
    Flatten([k \in 1..Len(seq) |->
                [n \in 1..CountAnnotationsInKids(seq[k].kids, Len(seq[k].kids)) |->
                    kVisibilityEncoded]
                \o <<seq[k].vis>>])

\* The unit index at which the k-th item of a described body starts (for
\* k = Len(items) + 1: the size of the body).
ItemStart(items, k) == Len(BodyUnits(SubSeq(items, 1, k - 1)))

\* The instructions of a described body, without the payloads.
IsInstruction(item) == item.kind = "inst"

InstructionsOf(items) == SelectSeq(items, IsInstruction)

InstructionSet(items) == {items[k] : k \in {n \in 1..Len(items) : IsInstruction(items[n])}}

\* The number of code units of a payload, by the format of its kind.
PayloadLength(item) ==
    CASE item.kind = "packed" -> 2 * item.units[2] + 4
      [] item.kind = "sparse" -> 4 * item.units[2] + 2
      [] item.kind = "fill" -> (item.units[3] * item.units[2] + 1) \div 2 + 4

\* The four reference sets of a set of instructions, by opcode.
StringsOf(instructions) ==
    {it.units[2] : it \in {x \in instructions : x.op = 26}}
    \cup {it.units[2] + 65536 * it.units[3] : it \in {x \in instructions : x.op = 27}}

AccessedOf(instructions) ==
    {it.units[2] : it \in {x \in instructions : x.op \in (82..88) \cup (96..102)}}

AssignedOf(instructions) ==
    {it.units[2] : it \in {x \in instructions : x.op \in (89..95) \cup (103..109)}}

InvokedOf(instructions) ==
    {it.units[2] : it \in {x \in instructions : x.op \in (110..114) \cup (116..120)}}

\* The field and the method indices of a described class, in the order of
\* its lists, and the described methods of a class with their indices.
FieldsOf(c) == MemberIndices(c.sf) \o MemberIndices(c.inf)

MethodsOf(c) == MemberIndices(c.dm) \o MemberIndices(c.vm)

IndexedMethods(c) ==
    {[idx |-> MemberIndices(c.dm)[k], m |-> c.dm[k]] : k \in 1..Len(c.dm)}
    \cup {[idx |-> MemberIndices(c.vm)[k], m |-> c.vm[k]] : k \in 1..Len(c.vm)}

DescribedMethod(method_idx) ==
    CHOOSE x \in UNION {IndexedMethods(desc.classes[p]) : p \in 1..Len(desc.classes)} :
        x.idx = method_idx

\* What one scan of the described code of a method gives.
FreshScan(method_idx) ==
    ScanFrom(DescribedMethod(method_idx).m.insns, Len(DescribedMethod(method_idx).m.insns),
             ScanStart)

\* The history of the class being visited: the events of one kind, and the
\* described class it is about.
IsFieldEvent(e) == e.ev = "field"

IsMethodEvent(e) == e.ev = "method"

IndicesOf(events) == [k \in 1..Len(events) |-> events[k].idx]

VisitedClass == DescOf(visit_log[1].i + 1)

\* Position k of the history is a stop query of the member visitor.
StopAt(k) == k <= Len(visit_log) /\ visit_log[k].ev = "member_stop"

\* No member callback is recorded after position k.
NoMemberAfter(k, kinds) == \A n \in (k + 1)..Len(visit_log) : visit_log[n].ev \notin kinds

(***************************************************************************)
(* Properties of the value decoder, under SpecValue.                       *)
(***************************************************************************)
\* C1: every array-typed Value, at any nesting depth, carries the array-pool
\* position at which the ArrayRecord decoded from its own bytes is stored,
\* also when nested arrays were appended to the pool first.
C1_ArrayIndexIsOwnRecord ==
    pc = "value_done" =>
        \A e \in LogEvents : (e.ev = "ref" /\ e.pool = "array") => RefIsOwnRecord(e)

\* C3: a signed integer value (byte, short, int, long) of any encoded size
\* up to its width decodes to the sign extension of the size-byte
\* little-endian two's-complement integer of the stream.
C3_SignedSignExtended ==
    (pc = "value_done" /\ desc.kind = "leaf" /\ desc.type \in SignedValueTypes) =>
        /\ res = <<desc.type, SignExtension(desc.payload, WidthOf(desc.type))>>
        /\ WidthOf(desc.type) <= 2 => SignedLE(res[2]) = SignedLE(desc.payload)

\* C3 witness: an int encoded in the single byte 0xFF has been decoded, to
\* the four bytes of -1.
C3_Witness ==
    /\ pc = "value_done"
    /\ desc.type = kEncodedInt
    /\ desc.payload = <<255>>
    /\ res[2] = <<255, 255, 255, 255>>

\* C4: a float or double encoded with size bytes decodes to the bit pattern
\* with those bytes in its most significant positions, in stream order, and
\* zero in the width - size low-order bytes.
C4_FloatHighBytes ==
    (pc = "value_done" /\ desc.kind = "leaf" /\ desc.type \in FloatValueTypes) =>
        LET width == WidthOf(desc.type)
            size == Len(desc.payload)
        IN /\ res[1] = desc.type
           /\ Len(res[2]) = width
           /\ \A k \in 1..width :
                  res[2][k] = IF k <= width - size THEN 0 ELSE desc.payload[k - (width - size)]

\* C4 witness: the float encoded as the two bytes {0x00, 0x3F} has been
\* decoded to 0x3F000000.
C4_Witness ==
    /\ pc = "value_done"
    /\ desc.type = kEncodedFloat
    /\ desc.payload = <<0, 63>>
    /\ FromLE(res[2]) = 63 * Pow2(24)

\* C5: a char or index value decodes to the zero-extended unsigned
\* little-endian integer of its bytes: no bit above bit 8*size - 1 is set,
\* whatever the high bit of the top payload byte.
C5_UnsignedZeroExtended ==
    (pc = "value_done" /\ desc.kind = "leaf" /\ desc.type \in UnsignedValueTypes) =>
        /\ res = <<desc.type, ZeroExtension(desc.payload, WidthOf(desc.type))>>
        /\ \A k \in 1..Len(res[2]) : k > Len(desc.payload) => res[2][k] = 0
        /\ Len(desc.payload) <= 3 =>
              /\ FromLE(res[2]) = FromLE(desc.payload)
              /\ FromLE(res[2]) < Pow2(8 * Len(desc.payload))

\* C5 witness: a string index encoded in the one byte 0xFF has been decoded,
\* to 255.
C5_Witness ==
    /\ pc = "value_done"
    /\ desc.type = kEncodedString
    /\ desc.payload = <<255>>
    /\ res[2] = <<255, 0, 0, 0>>

\* C6: decoding one encoded_value leaves the cursor on the first byte after
\* it: 1 byte for boolean (payload the argument bit) and null (no payload),
\* 1 + size bytes for numeric and index values, the whole nested
\* encoded_array or encoded_annotation otherwise.
C6_CursorAfterValue ==
    pc = "value_done" =>
        /\ cursor = 1 + Len(EncodeValue(desc))
        /\ SubSeq(image, cursor, Len(image)) = Trailer
        /\ desc.kind = "null" => (cursor = 2 /\ res = <<kEncodedNull, <<>>>>)
        /\ desc.kind = "boolean" => (cursor = 2 /\ res = <<kEncodedBoolean, <<desc.arg>>>>)
        /\ desc.kind = "leaf" => cursor = 2 + (image[1] \div 32) + 1

\* C6 witness: an array of two values, the first itself nested, has been
\* decoded and the cursor is on the first byte after it.
C6_Witness ==
    /\ pc = "value_done"
    /\ desc.kind = "array"
    /\ Len(desc.kids) = 2
    /\ desc.kids[1].kind = "annotation"
    /\ Len(desc.kids[1].kids) = 1
    /\ image[cursor] = Trailer[1]

(***************************************************************************)
(* Properties of openDex, under Spec.                                      *)
(***************************************************************************)
\* C2: every annotation index emitted during open (in a class, field,
\* method or parameter annotation list, or as the payload of an
\* annotation-typed Value) refers to the pool record decoded from that
\* annotation's own bytes, also when the annotation contains nested
\* annotations.
C2_AnnotationIndexIsOwnRecord ==
    pc = "opened" =>
        \A e \in LogEvents : (e.ev = "ref" /\ e.pool = "annotation") => RefIsOwnRecord(e)

\* C7: within a member list the k-th decoded index is the sum of the first
\* k+1 deltas and the k-th flags word is the one read with the k-th delta;
\* the index list and the flags list are as long as the declared count.
C7_IndicesArePrefixSums ==
    \A p \in 1..Len(class_data) :
        (Decoded(p) /\ DescOf(p).has_data) =>
            /\ MembersAre(class_data[p], DescOf(p).sf, DescOf(p).inf, DescOf(p).dm, DescOf(p).vm)
            /\ Len(class_data[p].static_fields_access_flags) = Len(DescOf(p).sf)
            /\ Len(class_data[p].instance_fields_access_flags) = Len(DescOf(p).inf)
            /\ Len(class_data[p].direct_methods_access_flags) = Len(DescOf(p).dm)
            /\ Len(class_data[p].virtual_methods_access_flags) = Len(DescOf(p).vm)

\* C7 witness: the instance fields written with the deltas 300, 300 (two
\* bytes of ULEB128 each) have been decoded to the indices 300, 600.
C7_Witness ==
    /\ pc = "opened"
    /\ Len(classes) = 1
    /\ DescOf(1).has_data
    /\ Len(DescOf(1).inf) = 2
    /\ DescOf(1).inf[1].delta = BigDelta
    /\ DescOf(1).inf[2].delta = BigDelta
    /\ class_data[1].instance_fields = <<BigDelta, 2 * BigDelta>>

\* C8: the running index starts from zero in each of the four member lists:
\* the first index of a list is its own first delta, whatever the indices
\* of the list before it.
C8_RunningIndexReset ==
    \A p \in 1..Len(class_data) :
        (Decoded(p) /\ DescOf(p).has_data) =>
            /\ DescOf(p).sf # <<>> => class_data[p].static_fields[1] = DescOf(p).sf[1].delta
            /\ DescOf(p).inf # <<>> => class_data[p].instance_fields[1] = DescOf(p).inf[1].delta
            /\ DescOf(p).dm # <<>> => class_data[p].direct_methods[1] = DescOf(p).dm[1].delta
            /\ DescOf(p).vm # <<>> => class_data[p].virtual_methods[1] = DescOf(p).vm[1].delta

\* C8 witness: every list of a decoded class is non-empty and ends on a
\* non-zero index, and the instance fields start again at their own delta.
C8_Witness ==
    /\ pc = "opened"
    /\ Len(classes) = 1
    /\ class_data[1].static_fields = <<2, 3>>
    /\ class_data[1].instance_fields = <<1>>
    /\ class_data[1].direct_methods = <<0, BigDelta>>
    /\ class_data[1].virtual_methods = <<3>>

\* C9: a class definition whose class_data_off and annotations_off are zero
\* (and that has no interface list) decodes to a ClassData with every list
\* empty, and the class after it is decoded as usual.
C9_EmptyClassDecodes ==
    \A p \in 1..Len(class_data) :
        (/\ Decoded(p)
         /\ classes[p].class_data_off = 0
         /\ classes[p].annotations_off = 0
         /\ classes[p].interfaces_off = 0) =>
            /\ class_data[p].interfaces = <<>>
            /\ MembersAre(class_data[p], <<>>, <<>>, <<>>, <<>>)
            /\ class_data[p].direct_methods_code = <<>>
            /\ class_data[p].virtual_methods_code = <<>>
            /\ class_data[p].annotations = <<>>
            /\ (pc = "opened" /\ p < Len(classes)) =>
                  (Decoded(p + 1) /\ SectionsAsDescribed(p + 1))

\* C9 witness: a file whose first class has no section and whose second
\* class has all of them has been decoded to the end.
C9_Witness ==
    /\ pc = "opened"
    /\ Len(classes) = 2
    /\ classes[1] = [interfaces_off |-> 0, annotations_off |-> 0, class_data_off |-> 0]
    /\ class_data[1] = EmptyClassData
    /\ class_data[2].interfaces = <<7, 9>>
    /\ class_data[2].static_fields = <<18, 19>>
    /\ include_annotations
    /\ Len(class_data[2].annotations) = 1

\* C10: each optional section is decoded on its own: without class data the
\* member lists are empty but interfaces and annotations are decoded;
\* without an annotations directory the annotation lists are empty but
\* interfaces and members are decoded; without an interface list only the
\* interface list is empty.
C10_SectionsIndependent ==
    \A p \in 1..Len(class_data) : Decoded(p) => SectionsAsDescribed(p)

\* C10 witness: a class with interfaces and annotations but no class data
\* has been decoded: interfaces and class annotations are there, the member
\* lists are empty.
C10_Witness ==
    /\ pc = "opened"
    /\ Len(classes) = 1
    /\ classes[1].class_data_off = 0
    /\ classes[1].interfaces_off # 0
    /\ classes[1].annotations_off # 0
    /\ include_annotations
    /\ class_data[1].interfaces = <<7, 9>>
    /\ Len(class_data[1].annotations) = 1
    /\ 2 \in DOMAIN field_annotations
    /\ class_data[1].static_fields = <<>>

C12_VisibilityInOwnRecord ==
    (pc \in {"classes", "opened"} /\ include_annotations) =>
        [k \in 1..Len(annotation_list) |-> annotation_list[k][1]]
            = VisibilitiesOf(AnnotationsBeforeClass(i + 1))

\* C12 witness: a class annotation of visibility 0 that nests an annotation
\* has been decoded: the nested record comes first and keeps the mark, the
\* annotation's own record has the visibility.
C12_Witness ==
    /\ pc = "opened"
    /\ Len(classes) = 1
    /\ include_annotations
    /\ DescOf(1).has_ann /\ DescOf(1).has_cls_set
    /\ DescOf(1).cls_set = <<NestedAnnotation>>
    /\ Len(annotation_list) = 2
    /\ annotation_list[1][1] = kVisibilityEncoded
    /\ annotation_list[2][1] = 0

\* The class data openDex decodes for class p of the file when annotations
\* are not asked for, and a class data without its annotation list.
OpenedWithout(p) ==
    DecodeClassDef(image, classes[p], FALSE,
        [class_data |-> EmptyClassData,
         st |-> [pos |-> 0, annotation_list |-> <<>>, array_list |-> <<>>, log |-> <<>>],
         field_annotations |-> EmptyMap, method_annotations |-> EmptyMap,
         parameter_annotations |-> EmptyMap]).class_data

StructureOf(d) == [d EXCEPT !.annotations = <<>>]

\* C32: the interface list and the member index, access-flag and code lists
\* of every decoded class are those an open without annotations decodes;
\* when annotations are not asked for, the annotation list of every class,
\* the three annotation maps and the two pools stay empty.
C32_AnnotationsApart ==
    /\ ~include_annotations =>
          /\ \A p \in 1..Len(class_data) : class_data[p].annotations = <<>>
          /\ field_annotations = EmptyMap
          /\ method_annotations = EmptyMap
          /\ parameter_annotations = EmptyMap
          /\ annotation_list = <<>>
          /\ array_list = <<>>
    /\ \A p \in 1..Len(class_data) :
          Decoded(p) => StructureOf(class_data[p]) = OpenedWithout(p)

\* C32 witness: a file whose class has members, interfaces and annotations
\* of the class, of fields, methods and parameters has been opened without
\* annotations.
C32_Witness ==
    /\ pc = "opened"
    /\ ~include_annotations
    /\ Len(classes) = 1
    /\ desc.classes[1].has_ann
    /\ desc.classes[1].has_cls_set
    /\ desc.classes[1].fann # <<>>
    /\ desc.classes[1].mann # <<>>
    /\ desc.classes[1].pann # <<>>
    /\ class_data[1].interfaces # <<>>
    /\ class_data[1].static_fields # <<>>
    /\ class_data[1].virtual_methods_code # <<>>

(***************************************************************************)
(* Properties of the bytecode scan, under SpecScan.                        *)
(***************************************************************************)
\* C13: the opcode trace of a scanned body has exactly one entry per real
\* instruction, in encounter order, and no entry for a pseudo-instruction
\* payload.
C13_TraceOfInstructionsOnly ==
    pc = "scanned" =>
        /\ Len(body.opcodes) = Len(InstructionsOf(desc))
        /\ \A k \in 1..Len(body.opcodes) : body.opcodes[k] % 256 = InstructionsOf(desc)[k].op

\* C14: when the scanner meets a payload at unit p, the next unit it decodes
\* is the first one after the payload (p + 2N + 4, p + 4N + 2 or
\* p + (n*w + 1) div 2 + 4); no unit inside a payload is decoded as an
\* instruction or contributes to a reference set.
C14_PayloadSkipped ==
    /\ \A k \in 1..Len(decoded_at) :
          /\ \E m \in 1..Len(desc) : decoded_at[k] = ItemStart(desc, m)
          /\ \A m \in 1..Len(desc) :
                (decoded_at[k] = ItemStart(desc, m) /\ ~IsInstruction(desc[m])) =>
                    (IF k < Len(decoded_at) THEN decoded_at[k + 1] ELSE scan.inst)
                        = decoded_at[k] + PayloadLength(desc[m])
    /\ FillUnit \notin (scan.referred_strings \cup scan.accessed_fields
                         \cup scan.assigned_fields \cup scan.invoked_methods)

\* C14 witness: a fill-array-data payload of two 4-byte elements at unit 2
\* has been met, and the next unit decoded was unit 10.
C14_Witness ==
    /\ pc = "scanned"
    /\ desc = <<ConstString42, FillArrayDataPayload(4, 2), Invoke5>>
    /\ decoded_at = <<0, 2, 10>>
    /\ DOMAIN body.invoked_methods = {5}

\* C15: each decoded instruction contributes to at most one reference set,
\* chosen by its opcode: 0x1a and 0x1b to the referenced strings (16-bit and
\* 32-bit index), 0x52..0x58 and 0x60..0x66 to the accessed fields,
\* 0x59..0x5f and 0x67..0x6d to the assigned fields, 0x6e..0x72 and
\* 0x74..0x78 to the invoked methods, every other opcode to none.
C15_SetsByOpcode ==
    pc = "scanned" =>
        /\ DOMAIN body.referred_strings = StringsOf(InstructionSet(desc))
        /\ DOMAIN body.accessed_fields = AccessedOf(InstructionSet(desc))
        /\ DOMAIN body.assigned_fields = AssignedOf(InstructionSet(desc))
        /\ DOMAIN body.invoked_methods = InvokedOf(InstructionSet(desc))
        /\ Len(desc) = 1 =>
              Cardinality(DOMAIN body.referred_strings) + Cardinality(DOMAIN body.accessed_fields)
              + Cardinality(DOMAIN body.assigned_fields) + Cardinality(DOMAIN body.invoked_methods) <= 1

\* C15 witness: a body of a const-string/jumbo, an iget and an invoke has
\* been scanned.
C15_Witness ==
    /\ pc = "scanned"
    /\ desc = <<Inst(27, <<7, 1>>), Inst(82, <<3>>), Invoke5>>
    /\ DOMAIN body.referred_strings = {65543}
    /\ DOMAIN body.accessed_fields = {3}
    /\ DOMAIN body.assigned_fields = {}
    /\ DOMAIN body.invoked_methods = {5}

\* C33: in a scanned body each of the four index vectors holds an index at
\* most once, however many instructions refer to it, and holds exactly the
\* indices that some instruction of the matching kind refers to.
C33_SetsWithoutDuplicates ==
    pc = "scanned" =>
        /\ \A x \in DOMAIN body.referred_strings :
              body.referred_strings[x] = 1 /\ x \in StringsOf(InstructionSet(desc))
        /\ \A x \in DOMAIN body.accessed_fields :
              body.accessed_fields[x] = 1 /\ x \in AccessedOf(InstructionSet(desc))
        /\ \A x \in DOMAIN body.assigned_fields :
              body.assigned_fields[x] = 1 /\ x \in AssignedOf(InstructionSet(desc))
        /\ \A x \in DOMAIN body.invoked_methods :
              body.invoked_methods[x] = 1 /\ x \in InvokedOf(InstructionSet(desc))
        /\ StringsOf(InstructionSet(desc)) \subseteq DOMAIN body.referred_strings
        /\ AccessedOf(InstructionSet(desc)) \subseteq DOMAIN body.accessed_fields
        /\ AssignedOf(InstructionSet(desc)) \subseteq DOMAIN body.assigned_fields
        /\ InvokedOf(InstructionSet(desc)) \subseteq DOMAIN body.invoked_methods

\* C33 witness: a body of the same const-string twice and the same invoke
\* once has been scanned; string 42 and method 5 are there once each.
C33_Witness ==
    /\ pc = "scanned"
    /\ desc = <<ConstString42, Invoke5, ConstString42>>
    /\ body.referred_strings = Assign({42})
    /\ body.invoked_methods = Assign({5})
    /\ Len(body.opcodes) = 3

\* A payload of the described body declares a length that ends past the
\* end of the code.
Overruns(items) ==
    \E m \in 1..Len(items) :
        /\ ~IsInstruction(items[m])
        /\ ItemStart(items, m) + PayloadLength(items[m]) > Len(BodyUnits(items))

\* C25: the scan of a body in which a payload declares a length past the end
\* of the code ends in a failure: no body is stored as loaded and handed on
\* as the result of a scan.
C25_OverrunFailsTheScan ==
    (pc = "scanned" /\ Overruns(desc)) => ~body.loaded

(***************************************************************************)
(* Properties of visitClass, under SpecVisit.                              *)
(***************************************************************************)
\* C16: over any sequence of visitClass calls on one session the bytecode
\* of a method is scanned at most once, and every body callback of the
\* method, in whichever call, delivers the four sets and the trace of that
\* one scan.
C16_BodyScannedOnce ==
    /\ \A m \in DOMAIN scans : scans[m] <= 1
    /\ \A k \in 1..Len(visit_log) :
          visit_log[k].ev = "body" =>
              /\ DOMAIN visit_log[k].referred_strings = FreshScan(visit_log[k].idx).referred_strings
              /\ DOMAIN visit_log[k].invoked_methods = FreshScan(visit_log[k].idx).invoked_methods
              /\ DOMAIN visit_log[k].accessed_fields = FreshScan(visit_log[k].idx).accessed_fields
              /\ DOMAIN visit_log[k].assigned_fields = FreshScan(visit_log[k].idx).assigned_fields
              /\ visit_log[k].opcodes = FreshScan(visit_log[k].idx).opcodes
              /\ scans[visit_log[k].idx] = 1

\* C16 witness: in a second call the body of method 2 is delivered without
\* a scan, from the one scan of the first call.
C16_Witness ==
    /\ calls = 2
    /\ 2 \in DOMAIN scans
    /\ scans[2] = 1
    /\ \E k \in 1..Len(visit_log) :
          /\ visit_log[k].ev = "body"
          /\ visit_log[k].idx = 2
          /\ ~visit_log[k].scanned
          /\ visit_log[k].opcodes = <<26, 0, 82, 14>>
          /\ DOMAIN visit_log[k].referred_strings = {42}
          /\ DOMAIN visit_log[k].accessed_fields = {3}

\* C17: the fields of a class are called back from its first field on, in
\* list order; once the stop query after a field is positive no further
\* field of the class is called back, while the methods of the class are
\* still visited, from the first one, when the visitor is a method visitor.
C17_FieldStopEndsFields ==
    visit_log # <<>> =>
        /\ IndicesOf(SelectSeq(visit_log, IsFieldEvent))
               = SubSeq(FieldsOf(VisitedClass), 1, Len(SelectSeq(visit_log, IsFieldEvent)))
        /\ \A k \in 1..Len(visit_log) :
              visit_log[k].ev = "field" =>
                  /\ StopAt(k + 1)
                  /\ visit_log[k + 1].stopped => NoMemberAfter(k + 1, {"field"})
                  /\ (/\ visit_log[k + 1].stopped
                      /\ k + 1 = Len(visit_log)
                      /\ member_visitor.method
                      /\ MethodsOf(VisitedClass) # <<>>) =>
                          /\ pc = "methods"
                          /\ MethodAt(MethodLists(class_data[i + 1]), member_pos).idx
                                 = MethodsOf(VisitedClass)[1]
        /\ (pc = "stop" /\ ~member_visitor.null /\ member_visitor.method) =>
              Len(SelectSeq(visit_log, IsMethodEvent)) >= IF MethodsOf(VisitedClass) = <<>> THEN 0 ELSE 1

\* C17 witness: the stop query after the first of three fields was positive,
\* and the first method of the class has been called back after it.
C17_Witness ==
    /\ Len(visit_log) >= 4
    /\ FieldsOf(VisitedClass) = <<0, 1, 2>>
    /\ visit_log[2].ev = "field"
    /\ visit_log[2].idx = 0
    /\ visit_log[3] = MemberStopEvent(TRUE)
    /\ visit_log[4].ev = "method"
    /\ visit_log[4].idx = 0

\* C18: the methods of a class are called back from its first method on,
\* direct before virtual; once the stop query after a method is positive no
\* further method of the class (direct or virtual) is called back, and the
\* next callback is the stop query of the class visitor.
C18_MethodStopEndsMethods ==
    visit_log # <<>> =>
        /\ IndicesOf(SelectSeq(visit_log, IsMethodEvent))
               = SubSeq(MethodsOf(VisitedClass), 1, Len(SelectSeq(visit_log, IsMethodEvent)))
        /\ \A k \in 1..Len(visit_log) :
              visit_log[k].ev = "method" =>
                  /\ StopAt(k + 1) \/ (visit_log[k + 1].ev = "body" /\ StopAt(k + 2))
                  /\ \A n \in {k + 1, k + 2} :
                        (StopAt(n) /\ visit_log[n].stopped) =>
                            /\ NoMemberAfter(n, {"field", "method", "body", "member_stop"})
                            /\ IF n = Len(visit_log) THEN pc = "stop"
                               ELSE visit_log[n + 1].ev = "stop"

\* C18 witness: the stop query after the one direct method was positive; no
\* virtual method was called back, and the class visitor was asked next.
C18_Witness ==
    /\ Len(visit_log) = 4
    /\ MethodsOf(VisitedClass) = <<0, 1, 2>>
    /\ visit_log[2].ev = "method"
    /\ visit_log[2].idx = 0
    /\ visit_log[3] = MemberStopEvent(TRUE)
    /\ visit_log[4] = ClassStopEvent(0, FALSE)
    /\ pc = "class"
    /\ i = 1

\* C19: within a call the class visitor is asked to stop exactly once after
\* each visited class, in class-def order; a positive answer ends the call
\* with no callback for a later class, a negative one is followed by the
\* next class.
C19_ClassStopAfterEachClass ==
    /\ \A p \in 1..Len(class_log) :
          IF p % 2 = 1 THEN class_log[p] = ClassEvent((p - 1) \div 2)
          ELSE /\ class_log[p].ev = "stop"
               /\ class_log[p].i = (p \div 2) - 1
               /\ class_log[p].stopped => (p = Len(class_log) /\ pc = "returned")
    /\ pc \in {"fields", "methods", "stop"} => Len(class_log) = 2 * i + 1
    /\ pc = "class" => Len(class_log) = 2 * i
    /\ pc = "returned" =>
          /\ Len(class_log) % 2 = 0
          /\ Len(class_log) = 2 * Len(classes)
             \/ (class_log # <<>> /\ class_log[Len(class_log)].stopped)
    /\ \A k \in 1..Len(visit_log) : visit_log[k].ev = "stop" => k = Len(visit_log)

\* C19 witness: the visitor of the first of two classes was asked once,
\* after a class with no member callback, and its positive answer ended the
\* call.
C19_Witness ==
    /\ Len(classes) = 2
    /\ pc = "returned"
    /\ member_visitor = NoVisitor
    /\ visit_log = <<ClassEvent(0), ClassStopEvent(0, TRUE)>>
    /\ class_log = <<ClassEvent(0), ClassStopEvent(0, TRUE)>>

\* C20: a field callback is made only on a visitor with the field
\* capability, a method or body callback only on one with the method
\* capability; with no visitor there is no field, method, body or member
\* stop callback.
C20_CallbacksByCapability ==
    \A k \in 1..Len(visit_log) :
        /\ visit_log[k].ev = "field" => (~member_visitor.null /\ member_visitor.field)
        /\ visit_log[k].ev \in {"method", "body"} =>
              (~member_visitor.null /\ member_visitor.method)
        /\ member_visitor.null => visit_log[k].ev \in {"class", "stop"}
        /\ visit_log[k].ev = "member_stop" =>
              (~member_visitor.null /\ (member_visitor.field \/ member_visitor.method))

\* C20 witness: a visitor with the field capability alone got the three
\* fields of its class and no method.
C20_Witness ==
    /\ pc = "stop"
    /\ member_visitor = [null |-> FALSE, field |-> TRUE, method |-> FALSE]
    /\ MethodsOf(VisitedClass) = <<0, 1, 2>>
    /\ IndicesOf(SelectSeq(visit_log, IsFieldEvent)) = <<0, 1, 2>>
    /\ Len(visit_log) = 7

\* C30: a method callback is followed by the body callback of its method
\* exactly when it returned a body visitor and the method has code; a
\* method is reported with code exactly when its code offset is not zero;
\* only methods with code that got a body callback have an entry in the
\* method-body cache, and the cache changes only in a step that makes a body
\* callback (the first one of its method).
C30_BodyIffVisitorAndCode ==
    [][/\ \A k \in 1..Len(visit_log') :
             /\ visit_log'[k].ev = "method" =>
                   /\ visit_log'[k].has_code = DescribedMethod(visit_log'[k].idx).m.has_code
                   /\ (visit_log'[k + 1].ev = "body")
                         <=> (visit_log'[k].body_visitor /\ visit_log'[k].has_code)
             /\ visit_log'[k].ev = "body" =>
                   /\ visit_log'[k - 1].ev = "method"
                   /\ visit_log'[k - 1].idx = visit_log'[k].idx
       /\ \A x \in DOMAIN method_bodies' :
             /\ DescribedMethod(x).m.has_code
             /\ method_bodies'[x].loaded
             /\ x \in DOMAIN scans'
             /\ scans'[x] = 1
       /\ method_bodies' # method_bodies =>
             /\ Len(visit_log') >= 2
             /\ visit_log'[Len(visit_log') - 1].ev = "body"
             /\ visit_log'[Len(visit_log') - 1].idx \in DOMAIN method_bodies'
             /\ visit_log'[Len(visit_log') - 1].idx \notin DOMAIN method_bodies
      ]_vars

\* C30 witness: in one class a method with code whose callback returned no
\* body visitor and a method without code whose callback returned one got
\* no body callback, a method with code whose callback returned one did, and
\* the cache holds that one body.
C30_Witness ==
    /\ \E k \in 1..Len(visit_log) :
          /\ visit_log[k].ev = "method"
          /\ visit_log[k].has_code
          /\ ~visit_log[k].body_visitor
          /\ visit_log[k + 1].ev = "member_stop"
    /\ \E k \in 1..Len(visit_log) :
          /\ visit_log[k].ev = "method"
          /\ ~visit_log[k].has_code
          /\ visit_log[k].body_visitor
          /\ visit_log[k + 1].ev = "member_stop"
    /\ \E k \in 1..Len(visit_log) :
          /\ visit_log[k].ev = "method"
          /\ visit_log[k].has_code
          /\ visit_log[k].body_visitor
          /\ visit_log[k + 1].ev = "body"
    /\ Cardinality(DOMAIN method_bodies) = 1

\* C31: within a call the classes are visited in class-def order; the
\* class callback of a class is the first of its callbacks, every field
\* callback comes before every method callback, the fields are called back
\* static before instance and the methods direct before virtual, each list
\* in decoded order; a body callback comes right after the method callback
\* of its method and right before the stop query for that method.
C31_CallbackOrder ==
    /\ \A k \in 1..Len(class_log) :
          /\ class_log[k].i = (k - 1) \div 2
          /\ class_log[k].ev = IF k % 2 = 1 THEN "class" ELSE "stop"
    /\ visit_log # <<>> =>
          /\ visit_log[1].ev = "class"
          /\ \A k \in 2..Len(visit_log) : visit_log[k].ev # "class"
          /\ \A a, b \in 1..Len(visit_log) :
                (visit_log[a].ev = "field" /\ visit_log[b].ev = "method") => a < b
          /\ IndicesOf(SelectSeq(visit_log, IsFieldEvent))
                 = SubSeq(MemberIndices(VisitedClass.sf) \o MemberIndices(VisitedClass.inf), 1,
                          Len(SelectSeq(visit_log, IsFieldEvent)))
          /\ IndicesOf(SelectSeq(visit_log, IsMethodEvent))
                 = SubSeq(MemberIndices(VisitedClass.dm) \o MemberIndices(VisitedClass.vm), 1,
                          Len(SelectSeq(visit_log, IsMethodEvent)))
          /\ \A k \in 1..Len(visit_log) :
                visit_log[k].ev = "body" =>
                    /\ visit_log[k - 1].ev = "method"
                    /\ visit_log[k - 1].idx = visit_log[k].idx
                    /\ StopAt(k + 1)

\* C31 witness: the second class of a session has been visited in full:
\* its two static fields, its instance field, its direct method with its
\* body, its two virtual methods, the second with its body.
C31_Witness ==
    /\ pc = "stop"
    /\ i = 1
    /\ Len(class_log) = 3
    /\ [k \in 1..Len(visit_log) |-> visit_log[k].ev]
           = <<"class", "field", "member_stop", "field", "member_stop", "field",
               "member_stop", "method", "body", "member_stop", "method", "member_stop",
               "method", "body", "member_stop">>
    /\ IndicesOf(SelectSeq(visit_log, IsFieldEvent)) = <<0, 1, 2>>
    /\ IndicesOf(SelectSeq(visit_log, IsMethodEvent)) = <<0, 1, 2>>

\* The index lists a caller observes in two states of an annotation map
\* are the same for every key.
SameLists(before, after) ==
    \A key \in (DOMAIN before) \cup (DOMAIN after) : MapGet(after, key) = MapGet(before, key)

InGetBackup(t) == hook_call[t].op = "GetBackup" /\ hook_call[t].pc = "wait"

\* C36: a thread leaves GetBackup only when the backup of the item is set,
\* with the stored handle as the value returned, or null when the failed
\* marker is stored, and the stored value as it was; and once the backup is
\* set, every thread waiting in GetBackup eventually returns.
C36_GetBackupWaitsAndReturns ==
    /\ [][\A t \in Callers :
            (InGetBackup(t) /\ ~InGetBackup(t)') =>
                /\ backup[1] # 0
                /\ backup' = backup
                /\ hook_call'[t].pc = "done"
                /\ hook_call'[t].ret = ToString(IF backup[1] = FAILED THEN 0 ELSE backup[1])
         ]_vars
    /\ \A t \in Callers : (InGetBackup(t) /\ backup[1] # 0) ~> ~InGetBackup(t)

\* C36 witness: a thread has returned null from GetBackup of the item whose
\* backup is the failed marker while another thread still waits in
\* GetBackup.
C36_Witness ==
    \E t, u \in Callers :
        /\ t # u
        /\ hook_call[t].op = "GetBackup"
        /\ hook_call[t].pc = "done"
        /\ hook_call[t].ret = ToString(0)
        /\ backup[1] = FAILED
        /\ InGetBackup(u)

\* The threads that have created the HookItem of m and have its
\* installation before them.
Installing(calling, m) == {t \in Callers : calling[t].pc = "hook" /\ calling[t].target = m}

\* The hookMethod calls on m that have returned.
Hooked(calling, m) ==
    {t \in Callers : /\ calling[t].op = "hookMethod"
                     /\ calling[t].pc = "done"
                     /\ calling[t].target = m}

\* C37: in every interleaving of hookMethod calls, the HookItem of a method
\* has one creator, which installs the hook once and before the backup is
\* set; no call goes past its wait while the backup is unset; when the
\* installation has failed, the item has no callback and every call on it
\* that has returned gave JNI_FALSE; when it has succeeded, every call that
\* has returned gave JNI_TRUE, and the step that ends a call adds one entry
\* under the call's priority to the multimap of the call's API, of its
\* target, and changes no other entry; no other step changes a callback.
C37_OneInstallEveryCallRegisters ==
    [][/\ \A m \in Targets :
            /\ Cardinality(Installing(hook_call', m)) + hook_log'.hooks[m]
                   = (IF m \in hooked_methods' THEN 1 ELSE 0)
            /\ backup'[m] # 0 => hook_log'.hooks[m] = 1
            /\ backup'[m] = FAILED =>
                   /\ \A p \in Priorities :
                          callbacks'[m].legacy[p] = 0 /\ callbacks'[m].modern[p] = 0
                   /\ \A t \in Hooked(hook_call', m) : hook_call'[t].ret = "JNI_FALSE"
            /\ backup'[m] \in Targets =>
                   \A t \in Hooked(hook_call', m) : hook_call'[t].ret = "JNI_TRUE"
       /\ \A t \in Callers :
            (hook_call[t].op = "hookMethod" /\ hook_call[t].pc = "wait"
                 /\ hook_call'[t].pc # "wait") => backup[hook_call[t].target] # 0
       /\ IF \E t \in Callers : hook_call[t].pc = "monitor" /\ hook_call'[t].pc = "done"
          THEN \E t \in Callers :
                  /\ hook_call[t].pc = "monitor" /\ hook_call'[t].pc = "done"
                  /\ hook_call'[t].ret = "JNI_TRUE"
                  /\ \A m \in Targets, p \in Priorities :
                        LET mine == m = hook_call[t].target /\ p = hook_call[t].priority
                            modern == hook_call[t].useModernApi
                        IN  /\ callbacks'[m].modern[p] = callbacks[m].modern[p]
                                   + (IF mine /\ modern THEN 1 ELSE 0)
                            /\ callbacks'[m].legacy[p] = callbacks[m].legacy[p]
                                   + (IF mine /\ ~modern THEN 1 ELSE 0)
          ELSE callbacks' = callbacks
      ]_vars

\* C37 witness: two threads are in hookMethod of the same method with the
\* same priority and API; the hook is installed, one of them has put its
\* callback in and returned JNI_TRUE, the other holds the monitor.
C37_Witness ==
    \E t, u \in Callers :
        /\ t # u
        /\ hook_call[t].op = "hookMethod" /\ hook_call[t].pc = "done"
        /\ hook_call[t].ret = "JNI_TRUE"
        /\ hook_call[u].pc = "monitor"
        /\ hook_call[u].target = hook_call[t].target
        /\ hook_log.hooks[hook_call[u].target] = 1
        /\ IF hook_call[u].useModernApi
           THEN callbacks[hook_call[u].target].modern[hook_call[u].priority] = 1
           ELSE callbacks[hook_call[u].target].legacy[hook_call[u].priority] = 1

\* C40: in every iteration of the scan loop the cursor strictly increases,
\* by the length of the opcode and, for a payload, the length of the
\* payload, and no iteration starts with the cursor at or past the end of
\* the code; so the loop ends, whatever the code units hold.
C40_CursorIncreases ==
    [][decoded_at' # decoded_at =>
           /\ scan.inst < insns_size
           /\ scan'.inst > scan.inst
           /\ scan'.inst >= scan.inst + OpcodeLen(OpcodeOf(InstUnit(insns, scan.inst, 0)))
      ]_vars

\* C38: every code unit an iteration of the scan loop reads (the opcode
\* unit, the operand units of the instructions of interest, the count and
\* width units of a payload) has an index below insns_size, also when the
\* end of the code cuts the instruction or the payload header off.
C38_ReadsBelowSize ==
    [][scan'.inst # scan.inst =>
           \A k \in UnitsRead(insns, scan.inst) : scan.inst + k < insns_size
      ]_vars

(***************************************************************************)
(* Properties of the session handles, under SpecSession.                   *)
(***************************************************************************)
\* C21: closeDex on a null handle, or on a handle whose session has already
\* been released, does nothing and causes no fault.
C21_CloseIsIdempotent ==
    (last_call.op = "close" /\ (last_call.cookie = 0 \/ last_call.released)) => ~fault

\* C22: visitClass on a null handle ends with an explicit error for its
\* caller.
C22_NullVisitIsAnError ==
    (last_call.op = "visit" /\ last_call.cookie = 0) => last_call.exception # NoException

\* C23: openDex on a compact dex file throws, returns no tables and leaves
\* the session it created released.
C23_CompactOpenFails ==
    (last_call.op = "open" /\ last_call.buffer = "compact") =>
        /\ last_call.exception = IOException
        /\ last_call.ret = "null"
        /\ last_call.cookie \notin sessions

\* C23 witness: a compact file was opened while another session is live.
C23_Witness ==
    /\ last_call.op = "open"
    /\ last_call.buffer = "compact"
    /\ last_call.cookie = 2
    /\ sessions = {1}

\* C24: the storage behind the value byte sequences exported by openDex
\* stays allocated for as long as the session is.
C24_PoolsLiveWithSession ==
    \A a \in sessions : pool_storage[a] # "released"

\* C39: when openDex has returned, the handle it has written to args[0] is
\* the address of a session that is allocated: openDex has not released the
\* session whose address it has left in the slot.
C39_SlotHandleIsLive ==
    (last_call.op = "open" /\ last_call.cookie # 0) =>
        /\ cookie_slot = last_call.cookie
        /\ cookie_slot \in sessions

\* C34: a visitClass call on a null handle makes no traversal (no callback
\* of any kind), ends without a fault, and leaves the sessions, their
\* exported storage and the handle slot as they were.
C34_NullVisitChangesNothing ==
    [][(last_call' # last_call /\ last_call'.op = "visit" /\ last_call'.cookie = 0) =>
          /\ ~last_call'.visited
          /\ ~fault'
          /\ sessions' = sessions
          /\ pool_storage' = pool_storage
          /\ cookie_slot' = cookie_slot
          /\ handed' = handed
      ]_vars

\* C34 witness: visitClass on a null handle has returned while two sessions
\* are open.
C34_Witness ==
    /\ last_call.op = "visit"
    /\ last_call.cookie = 0
    /\ sessions = {1, 2}
    /\ ~fault

(***************************************************************************)
(* Properties of the ElfImage cache, under SpecCache.                      *)
(***************************************************************************)
\* C26: as long as no ClearCache has been called, at most one ElfImage per
\* library has loaded, and every Get that has returned has returned either
\* null or the one valid ElfImage cached for its library.
C26_LoadedOnceOrNull ==
    ~cache_log.cleared =>
        /\ \A l \in LibrarySet : cache_log.loaded[l] <= 1
        /\ \A t \in Callers :
              (caller[t].op = "get" /\ caller[t].pc = "done" /\ caller[t].ret # 0) =>
                  /\ elf_images[caller[t].ret] = "valid"
                  /\ g_image[caller[t].lib] = caller[t].ret

\* C27: a block of ClearCache(image) changes no entry but the one it looks
\* at, resets that one and returns true exactly when it holds the pointer,
\* and the call returns false only after the last block; ClearCache(null)
\* returns false and changes nothing; a Get that finds its entry empty
\* goes for the mutex, and constructs an ElfImage when the entry is still
\* empty then.
C27_ClearCacheFrame ==
    [][\A t \in Callers :
          /\ (caller[t].pc = "clear" /\ caller'[t] # caller[t]) =>
                /\ \A l \in LibrarySet \ {Libraries[caller[t].at]} : g_image'[l] = g_image[l]
                /\ IF g_image[Libraries[caller[t].at]] = caller[t].image_to_clear
                   THEN /\ g_image'[Libraries[caller[t].at]] = 0
                        /\ caller'[t].pc = "done"
                        /\ caller'[t].found
                   ELSE /\ g_image'[Libraries[caller[t].at]] = g_image[Libraries[caller[t].at]]
                        /\ ~caller'[t].found
                        /\ caller'[t].pc = "done" => caller[t].at = Len(Libraries)
          /\ (caller[t].pc = "done" /\ caller'[t].op = "clear" /\ caller'[t] # caller[t]
              /\ caller'[t].image_to_clear = 0) =>
                /\ g_image' = g_image
                /\ caller'[t].pc = "done"
                /\ ~caller'[t].found
          /\ (caller[t].pc = "done" /\ caller'[t].op = "get" /\ caller'[t] # caller[t]
              /\ g_image[caller'[t].lib] = 0) =>
                caller'[t].pc = "lock"
          /\ (caller[t].pc = "lock" /\ caller'[t] # caller[t]
              /\ g_image[caller[t].lib] = 0) =>
                /\ g_image'[caller[t].lib] # 0
                /\ elf_images[g_image'[caller[t].lib]] = "free"
                /\ elf_images'[g_image'[caller[t].lib]] # "free"
      ]_vars

\* C27 witness: ClearCache(image) has found the pointer in the binder entry,
\* reset it and returned true, and the art entry is still cached.
C27_Witness ==
    /\ \E t \in Callers : caller[t].op = "clear" /\ caller[t].pc = "done" /\ caller[t].found
    /\ cache_log.loaded["binder"] = 1
    /\ g_image["binder"] = 0
    /\ g_image["art"] # 0

(***************************************************************************)
(* Properties of the hook bridge, under SpecHook and SpecItem.             *)
(***************************************************************************)
\* C28: invokeOriginalMethod on a method whose hook has failed ends with a
\* Java exception pending.
C28_FailedBackupThrows ==
    \A t \in Callers :
        (/\ hook_call[t].op = "invokeOriginalMethod"
         /\ hook_call[t].pc = "done"
         /\ hook_call[t].target \in hooked_methods
         /\ backup[hook_call[t].target] = FAILED) =>
            hook_call[t].exception # "none"

\* C29: the backup of a HookItem changes only from nullptr, to FAILED or to
\* a handle, whatever SetBackup calls are made; a SetBackup on a backup
\* that is set leaves it as it is.
C29_BackupSetOnce ==
    [][\A m \in Targets :
          /\ backup[m] # 0 => backup'[m] = backup[m]
          /\ backup'[m] # backup[m] => backup'[m] \in {FAILED} \cup Targets
      ]_vars

\* C29 witness: SetBackup(2) has returned while the backup holds the handle
\* 1 an earlier SetBackup has stored.
C29_Witness ==
    /\ backup[1] = 1
    /\ \E t \in Callers :
          /\ hook_call[t].op = "SetBackup"
          /\ hook_call[t].pc = "done"
          /\ hook_call[t].newBackup = 2

====
